---- MODULE Spec2Model ----
(***************************************************************************)
(* A model of pkg-risk's continuous analysis daemon:                       *)
(*   - WorkQueue        (src/src/pkgrisk/daemon/work_queue.py)             *)
(*   - ContinuousPipeline (src/src/pkgrisk/daemon/continuous.py)           *)
(*   - the parts of MetricsCollector and GitHubFetcher the daemon touches  *)
(*   - AnalysisPipeline.analyze_package, stage by stage                    *)
(*                        (src/src/pkgrisk/analyzers/pipeline.py)          *)
(*   - Scorer's risk tier and grade, OSVFetcher's severity parser and      *)
(*     DepsDevFetcher's dependency-graph summary, as computations          *)
(* Time is counted in seconds.  Optional values (Python's None) are the    *)
(* empty tuple, a present value x is the one-element tuple <<x>>.          *)
(***************************************************************************)
EXTENDS Integers, Sequences, FiniteSets, TLC

(***************************************************************************)
(* Bounds of the model                                                     *)
(***************************************************************************)
\* largest new_ratio + stale_ratio the work-queue specification configures
MaxCycle == 4
\* packages each adapter lists in the work-queue specification
NamesPerEcosystem == 3
\* the clock value past which the daemon specification starts no further wait
MaxTime == 5000
\* seconds one package analysis takes
AnalysisTime == 1200
\* a signal reaches a waiting daemon at once, this many seconds into the
\* wait, or as the wait ends
SignalDelay == 1
\* consecutive failures followed by the back-off specification
MaxConsecutiveErrors == 1030

\* outcomes of one analyze_package call that depart from the nominal one
MaxFaults == 2

\* nodes of a dependency graph, the root included
MaxNodes == 3

(***************************************************************************)
(* Program constants                                                       *)
(***************************************************************************)
\* stale_threshold_days = 7, as seconds (timedelta(days=7))
STALE_THRESHOLD_SECONDS == 604800
RATE_LIMIT_THRESHOLD == 50
ERROR_BACKOFF_BASE == 5
ERROR_BACKOFF_MAX == 300
QUEUE_REFRESH_INTERVAL == 3600
\* _interruptible_sleep(60) on an empty queue
EMPTY_QUEUE_SLEEP == 60
\* asyncio.sleep(min(10, ...)) in _interruptible_sleep
SLEEP_POLL == 10
\* max(sleep_seconds + 10, 60) in _handle_rate_limit_exhausted
RATE_LIMIT_BUFFER == 10
RATE_LIMIT_MIN_SLEEP == 60
\* GitHubFetcher.rate_limit_remaining before any response
DEFAULT_RATE_LIMIT == 5000
\* publish_interval
PUBLISH_INTERVAL == 50
\* deque(maxlen=10) of recent errors
RECENT_ERRORS_MAXLEN == 10
\* 2 ** n converts to a float only for n < 1024 (IEEE-754 double)
FLOAT_MAX_EXP == 1024

None == <<>>
Some(x) == <<x>>

Min(a, b) == IF a <= b THEN a ELSE b
Max(a, b) == IF a >= b THEN a ELSE b

\* WorkQueue._adapters is a dict built in this order; refresh() iterates it
EcosystemOrder == <<"homebrew", "npm", "pypi">>
Ecosystems == {EcosystemOrder[i] : i \in 1..Len(EcosystemOrder)}

PackageNames == <<"pkg1", "pkg2", "pkg3", "pkg4", "pkg5", "pkg6">>
NameIndex(n) == CHOOSE i \in 1..Len(PackageNames) : PackageNames[i] = n
AllKeys == Ecosystems \X {PackageNames[i] : i \in 1..Len(PackageNames)}

VARIABLES
    \* ---- WorkQueue fields
    new_ratio, stale_ratio,      \* self.new_ratio, self.stale_ratio
    new_queue, stale_queue,      \* self._new_queue, self._stale_queue
    cycle_position,              \* self._cycle_position
    all_packages,                \* self._all_packages
    \* ---- environment
    listing,                     \* what each adapter's list_packages() returns
    files,                       \* <data>/analyzed/<ecosystem>/<name>.json
    now,                         \* the wall clock, in seconds
    \* ---- ContinuousPipeline configuration and fields
    skip_llm, no_publish,
    pc,                          \* where run() / _main_loop() stands
    wake_at,                     \* when the await under way completes
    shutdown_requested,          \* self._shutdown_requested
    current_package,             \* self._current_package
    consecutive_errors,          \* self._consecutive_errors
    last_queue_refresh,          \* self._last_queue_refresh
    total_analyzed,              \* self._total_analyzed
    pipelines,                   \* self._pipelines, in insertion order
    rate_limit,                  \* each pipeline's GitHubFetcher rate-limit state
    rl_exc,                      \* the RateLimitExhausted being handled
    sleep,                       \* the _interruptible_sleep under way
    \* ---- MetricsCollector and GitHubPublisher
    metrics,                     \* MetricsCollector._metrics
    metrics_file,                \* what <data>/.metrics.json holds
    publisher,
    \* ---- observation of the run (history, not program state)
    last_get,                    \* the last get_next_package() call
    cycle_log,                   \* sources handed out in the interleave cycle under way
    obs,                         \* what the daemon has done so far
    \* ---- AnalysisPipeline
    an,                          \* the analyze_package call under way
    \* ---- Scorer, OSVFetcher, DepsDevFetcher
    calc                         \* the computation under way: its input and result

wqVars == <<new_ratio, stale_ratio, new_queue, stale_queue, cycle_position, all_packages>>
envVars == <<listing, files, now>>
\* an and calc do not change while the daemon loop, the queue or the failure
\* counter is what steps
cfgVars == <<skip_llm, no_publish, an, calc>>
loopVars == <<pc, wake_at, shutdown_requested, current_package, consecutive_errors,
              last_queue_refresh, total_analyzed, pipelines, rate_limit, rl_exc, sleep>>
outVars == <<metrics, metrics_file, publisher>>
daemonVars == <<cfgVars, loopVars, outVars, obs>>
vars == <<wqVars, envVars, daemonVars, last_get, cycle_log>>

(***************************************************************************)
(* WorkQueue                                                               *)
(***************************************************************************)
QueuedPackage(e, n, s, la) ==
    [ecosystem |-> e, name |-> n, source |-> s, last_analyzed |-> la]

PackageKey(p) == <<p.ecosystem, p.name>>

\* An analysis file: absent, present without a usable analyzed_at, or an
\* artifact carrying its analyzed_at timestamp.
NoFile == [kind |-> "absent", analyzed_at |-> 0]
Garbled == [kind |-> "garbled", analyzed_at |-> 0]
Artifact(t) == [kind |-> "artifact", analyzed_at |-> t]

\* WorkQueue._get_analyzed_at: None unless the file exists and parses
get_analyzed_at(file) ==
    IF file.kind = "absent" THEN None
    ELSE IF file.kind = "artifact" THEN Some(file.analyzed_at)
    ELSE None

\* the (ecosystem, name) pairs refresh() visits, in visiting order; an
\* ecosystem whose list_packages() raised is skipped
ListedKeys(lst, failed) ==
    LET per(e) == IF e \in failed THEN <<>>
                  ELSE [i \in 1..Len(lst[e]) |-> <<e, lst[e][i]>>]
    IN per(EcosystemOrder[1]) \o per(EcosystemOrder[2]) \o per(EcosystemOrder[3])

\* the classification of one listed package by refresh()
Classify(key, fs, t) ==
    LET last_analyzed == get_analyzed_at(fs[key])
        stale_cutoff == t - STALE_THRESHOLD_SECONDS
    IN IF last_analyzed = None
         THEN QueuedPackage(key[1], key[2], "new", None)
       ELSE IF last_analyzed[1] < stale_cutoff
         THEN QueuedPackage(key[1], key[2], "stale", last_analyzed)
       ELSE QueuedPackage(key[1], key[2], "up_to_date", last_analyzed)

\* list.sort(key=lambda p: p.last_analyzed or datetime.min): a stable sort,
\* oldest first
RECURSIVE InsertStable(_, _)
InsertStable(sorted, p) ==
    IF sorted = <<>> THEN <<p>>
    ELSE IF Head(sorted).last_analyzed[1] <= p.last_analyzed[1]
      THEN <<Head(sorted)>> \o InsertStable(Tail(sorted), p)
    ELSE <<p>> \o sorted

RECURSIVE SortStale(_)
SortStale(s) ==
    IF s = <<>> THEN <<>>
    ELSE InsertStable(SortStale(SubSeq(s, 1, Len(s) - 1)), s[Len(s)])

\* WorkQueue.refresh: both queues are cleared and rebuilt; the interleave
\* position is not touched
refresh(nq, sq, lst, fs, t, failed) ==
    LET keys == ListedKeys(lst, failed)
        classified == [i \in 1..Len(keys) |-> Classify(keys[i], fs, t)]
        IsNew(p) == p.source = "new"
        IsStale(p) == p.source = "stale"
        IsFresh(p) == p.source = "up_to_date"
    IN [new_queue |-> SelectSeq(classified, IsNew),
        stale_queue |-> SortStale(SelectSeq(classified, IsStale)),
        all_packages |-> {keys[i] : i \in 1..Len(keys)},
        stats |-> [new_packages |-> Len(SelectSeq(classified, IsNew)),
                   stale_packages |-> Len(SelectSeq(classified, IsStale)),
                   up_to_date |-> Len(SelectSeq(classified, IsFresh))]]

GetResult(p, nq, sq, pos) ==
    [package |-> p, new_queue |-> nq, stale_queue |-> sq, cycle_position |-> pos]

\* the head is returned but left in its queue
GetNextMutantNoPop(nq, sq, pos, nr, sr) ==
    IF nq = <<>> /\ sq = <<>> THEN GetResult(None, nq, sq, pos)
    ELSE IF sq = <<>> THEN GetResult(Some(Head(nq)), nq, sq, pos)
    ELSE IF nq = <<>> THEN GetResult(Some(Head(sq)), nq, sq, pos)
    ELSE IF pos < nr THEN GetResult(Some(Head(nq)), nq, sq, pos + 1)
    ELSE GetResult(Some(Head(sq)), nq, sq, IF pos + 1 >= nr + sr THEN 0 ELSE pos + 1)

\* the position is never reset at the end of the cycle
GetNextMutantNoReset(nq, sq, pos, nr, sr) ==
    IF nq = <<>> /\ sq = <<>> THEN GetResult(None, nq, sq, pos)
    ELSE IF sq = <<>> THEN GetResult(Some(Head(nq)), Tail(nq), sq, pos)
    ELSE IF nq = <<>> THEN GetResult(Some(Head(sq)), nq, Tail(sq), pos)
    ELSE IF pos < nr THEN GetResult(Some(Head(nq)), Tail(nq), sq, pos + 1)
    ELSE GetResult(Some(Head(sq)), nq, Tail(sq), pos + 1)

\* the interleave branch is taken before the fall-through to the other queue
GetNextMutantNoFallThrough(nq, sq, pos, nr, sr) ==
    IF nq = <<>> /\ sq = <<>> THEN GetResult(None, nq, sq, pos)
    ELSE IF pos < nr
      THEN (IF nq = <<>> THEN GetResult(None, nq, sq, pos)
            ELSE GetResult(Some(Head(nq)), Tail(nq), sq, pos + 1))
    ELSE (IF sq = <<>> THEN GetResult(None, nq, sq, pos)
          ELSE GetResult(Some(Head(sq)), nq, Tail(sq),
                         IF pos + 1 >= nr + sr THEN 0 ELSE pos + 1))

\* WorkQueue.get_next_package
get_next_package(nq, sq, pos, nr, sr) ==
    IF nq = <<>> /\ sq = <<>> THEN GetResult(None, nq, sq, pos)
    ELSE IF sq = <<>> THEN GetResult(Some(Head(nq)), Tail(nq), sq, pos)
    ELSE IF nq = <<>> THEN GetResult(Some(Head(sq)), nq, Tail(sq), pos)
    ELSE IF pos < nr THEN GetResult(Some(Head(nq)), Tail(nq), sq, pos + 1)
    ELSE GetResult(Some(Head(sq)), nq, Tail(sq),
                   IF pos + 1 >= nr + sr THEN 0 ELSE pos + 1)

(***************************************************************************)
(* Observation of get_next_package() calls                                 *)
(***************************************************************************)
HeadOf(q) == IF q = <<>> THEN None ELSE Some(Head(q))

NoCall == [called |-> FALSE, pre_new |-> None, pre_stale |-> None,
           pre_pos |-> 0, result |-> None]

\* the heads of the two queues and the position before the call, and what
\* the call returned
ObserveGet(r) ==
    [called |-> TRUE, pre_new |-> HeadOf(new_queue), pre_stale |-> HeadOf(stale_queue),
     pre_pos |-> cycle_position, result |-> r.package]

NotTracking == [tracking |-> FALSE, sources |-> <<>>]

CycleLength == new_ratio + stale_ratio

\* A cycle is followed from a call made at position 0 with both queues
\* holding at least new_ratio + stale_ratio items, for the CycleLength
\* successive calls that make it up.
ObserveCycle(r) ==
    LET starts == /\ cycle_position = 0
                  /\ Len(new_queue) >= CycleLength
                  /\ Len(stale_queue) >= CycleLength
                  /\ (~cycle_log.tracking \/ Len(cycle_log.sources) >= CycleLength)
        continues == cycle_log.tracking /\ Len(cycle_log.sources) < CycleLength
        source == IF r.package = None THEN "none" ELSE r.package[1].source
    IN IF starts THEN [tracking |-> TRUE, sources |-> <<source>>]
       ELSE IF continues
         THEN [tracking |-> TRUE, sources |-> Append(cycle_log.sources, source)]
       ELSE NotTracking


(***************************************************************************)
(* MetricsCollector (monitoring/metrics.py)                                *)
(***************************************************************************)
\* PipelineMetrics as constructed; recent_errors is the length of the deque
PipelineMetrics ==
    [is_running |-> FALSE, current_package |-> "", total_packages |-> 0,
     completed_packages |-> 0, scored_count |-> 0, unavailable_count |-> 0,
     error_count |-> 0, recent_errors |-> 0,
     github_rate_limit_remaining |-> 5000, osv_status |-> "unknown"]

\* update_github_rate_limit and update_osv_status change the snapshot and
\* leave the file alone
update_github_rate_limit(m, remaining) == [m EXCEPT !.github_rate_limit_remaining = remaining]

update_osv_status(m, status) == [m EXCEPT !.osv_status = status]

start_package(m, name) == [m EXCEPT !.current_package = name]

complete_package(m, name, status) ==
    [m EXCEPT !.completed_packages = @ + 1,
              !.current_package = "",
              !.scored_count = IF status = "scored" THEN @ + 1 ELSE @,
              !.unavailable_count = IF status = "unavailable" THEN @ + 1 ELSE @,
              !.error_count = IF status \notin {"scored", "unavailable"} THEN @ + 1 ELSE @]

record_error(m) == [m EXCEPT !.recent_errors = Min(@ + 1, RECENT_ERRORS_MAXLEN)]

\* run() after a refresh: the queue totals replace the batch counters
QueueTotals(m, stats) ==
    [m EXCEPT !.total_packages = stats.new_packages + stats.stale_packages,
              !.completed_packages = 0]

\* the clean-up of run()'s finally block leaves is_running set
FinalMetricsMutantStillRunning(m) == [m EXCEPT !.current_package = ""]

\* the clean-up of run()'s finally block
FinalMetrics(m) == [m EXCEPT !.is_running = FALSE, !.current_package = ""]

(***************************************************************************)
(* GitHubPublisher (daemon/publisher.py): counts the packages recorded     *)
(* since the last publish, publishes every publish_interval packages and   *)
(* publishes unconditionally when forced.                                  *)
(***************************************************************************)
NewPublisher == [pending |-> 0, publishes |-> 0, forced |-> 0]

record_package(p) == [p EXCEPT !.pending = @ + 1]

maybe_publish(p) ==
    IF p.pending >= PUBLISH_INTERVAL
      THEN [p EXCEPT !.pending = 0, !.publishes = @ + 1]
    ELSE p

force_publish(p) == [p EXCEPT !.pending = 0, !.publishes = @ + 1, !.forced = @ + 1]

(***************************************************************************)
(* ContinuousPipeline (daemon/continuous.py)                               *)
(***************************************************************************)
\* GitHubFetcher's rate-limit fields before any response
FreshFetcher == [remaining |-> DEFAULT_RATE_LIMIT, reset |-> None]

InPipelines(pls, e) == \E i \in 1..Len(pls) : pls[i] = e

\* _get_pipeline: a pipeline, with its own fetcher, is created on first use
get_pipeline(pls, e) == IF InPipelines(pls, e) THEN pls ELSE Append(pls, e)

\* the test of _check_rate_limits lets one more request through
RateLimitLowMutantOffByOne(remaining, reset, threshold) ==
    remaining + 1 < threshold /\ reset # None

\* the test of _check_rate_limits on one fetcher
RateLimitLow(remaining, reset, threshold) ==
    remaining < threshold /\ reset # None

\* _check_rate_limits: the RateLimitExhausted raised, or None; only the
\* first pipeline of the dict is looked at
check_rate_limits(pls, rl, threshold) ==
    IF pls = <<>> THEN None
    ELSE LET github == rl[pls[1]]
         IN IF RateLimitLow(github.remaining, github.reset, threshold)
              THEN Some([reset_time |-> github.reset[1], remaining |-> github.remaining])
            ELSE None

\* the reset time must lie strictly in the past
ResetPassedMutantStrict(reset_time, t) == reset_time < t

\* _handle_rate_limit_exhausted: e.reset_time <= now
ResetPassed(reset_time, t) == reset_time <= t

\* the sleep lasts exactly until the buffer after the reset
RateLimitSleepMutantNoFloor(reset_time, t) == (reset_time - t) + RATE_LIMIT_BUFFER

\* _handle_rate_limit_exhausted: max(sleep_seconds + 10, 60)
RateLimitSleepSeconds(reset_time, t) ==
    Max((reset_time - t) + RATE_LIMIT_BUFFER, RATE_LIMIT_MIN_SLEEP)

\* the whole remainder is slept in one piece
SleepChunkMutantWhole(seconds, elapsed) == seconds - elapsed

\* _interruptible_sleep: min(10, seconds - (time.time() - start))
SleepChunk(seconds, elapsed) == Min(SLEEP_POLL, seconds - elapsed)

\* the loop goes on whatever the flag says
LoopContinuesMutantIgnoresFlag(flag) == TRUE

\* _main_loop: while not self._shutdown_requested
LoopContinues(flag) == ~flag

\* _handle_error: min(ERROR_BACKOFF_BASE * (2 ** (n - 1)), ERROR_BACKOFF_MAX).
\* ERROR_BACKOFF_BASE is a float, so the product converts 2 ** (n - 1) to a
\* float and raises OverflowError from n - 1 = 1024 on.  Below that the
\* minimum is ERROR_BACKOFF_MAX as soon as the exponent reaches 20, which
\* is where the power is cut here.
ErrorBackoff(n) ==
    IF n - 1 >= FLOAT_MAX_EXP THEN [raised |-> TRUE, seconds |-> 0]
    ELSE [raised |-> FALSE,
          seconds |-> Min(ERROR_BACKOFF_BASE * (2 ^ Min(n - 1, 20)), ERROR_BACKOFF_MAX)]

NoSleep == [active |-> FALSE, start |-> 0, seconds |-> 0, reason |-> "none"]
StartSleep(t, seconds, reason) ==
    [active |-> TRUE, start |-> t, seconds |-> seconds, reason |-> reason]

CurrentName == IF current_package = None THEN "" ELSE current_package[1].name
CurrentKey == PackageKey(current_package[1])

(***************************************************************************)
(* What the run has done so far                                            *)
(***************************************************************************)
NoRateLimitHandled == [handled |-> FALSE, reset_time |-> 0, at |-> 0, slept |-> FALSE,
                       next |-> "none"]
NoSleepReturned == [returned |-> FALSE, reason |-> "none", start |-> 0, seconds |-> 0,
                    reset_time |-> 0, returned_at |-> 0, interrupted |-> FALSE,
                    flag_at |-> 0]
NoBackoff == [applied |-> FALSE, n |-> 0, raised |-> FALSE, seconds |-> 0]
NoFailure == [failed |-> FALSE, recent_errors |-> 0, error_count |-> 0,
              completed_packages |-> 0]

NothingObserved ==
    [shutdown_at |-> 0 - 1,          \* when the signal arrived
     in_flight |-> FALSE,            \* it arrived while a package was being analyzed
     in_flight_done |-> FALSE,       \* ... and that analysis has run to its end
     dequeued_after_shutdown |-> FALSE,
     started_after_shutdown |-> FALSE,
     refreshes |-> 0,                \* queue refreshes so far
     handed |-> {},                  \* packages handed out since the last refresh
     analyzed |-> {},                \* packages whose analysis started since then
     repeat |-> FALSE,               \* one of them was handed out or analyzed again
     checked_current |-> FALSE,      \* the rate limits were checked for current_package
     started_current |-> FALSE,      \* the analysis of current_package was started
     idle_refresh |-> "none",        \* what became of the packages a refresh gave an idle daemon
     rl_handled |-> NoRateLimitHandled,
     last_sleep |-> NoSleepReturned,
     backoff |-> NoBackoff,
     unlocked |-> {},                \* who wrote the metrics without the collector's lock
     backpressure |-> "none",        \* what followed the last raise of the rate-limit check
     failure |-> NoFailure,          \* the metrics as the failing analysis found them
     exit_by |-> "none"]

(***************************************************************************)
(* AnalysisPipeline.analyze_package (analyzers/pipeline.py) with           *)
(* GitHubFetcher.fetch_repo_data (analyzers/github.py)                     *)
(***************************************************************************)
\* the sub-fetches of fetch_repo_data, in the order it awaits them
SubFetches == <<"contributors", "commits", "issues", "prs", "releases", "security",
                "files", "ci">>
SubFetchSet == {SubFetches[i] : i \in 1..Len(SubFetches)}

\* One exchange through _fetch / _fetch_all_pages: "ok" is an answer with
\* data, "not_found" a 404 (None, or the end of the pages), "error" anything
\* else (raise_for_status on a 5xx answer, a transport error): it raises.
FetchOutcomes == {"ok", "not_found", "error"}

\* the runs of the sub-fetches in which at most one of them departs from "ok"
SubFetchRuns ==
    {[s \in SubFetchSet |-> IF s = d THEN o ELSE "ok"] : d \in SubFetchSet, o \in FetchOutcomes}

\* GitHubFetcher.fetch_repo_data: info is what _fetch_repo_info met, subs what
\* each sub-fetch met.  No sub-fetch is guarded, so the first that raises
\* ends the call; a 404 leaves the sub-record at its default values.
fetch_repo_data(info, subs) ==
    IF info = "error" THEN [raised |-> TRUE, data |-> None]
    ELSE IF info = "not_found" THEN [raised |-> FALSE, data |-> None]
    ELSE IF \E s \in SubFetchSet : subs[s] = "error" THEN [raised |-> TRUE, data |-> None]
    ELSE [raised |-> FALSE,
          data |-> Some([s \in SubFetchSet |-> IF subs[s] = "ok" THEN "data" ELSE "default"])]

\* stage 2 of analyze_package: data_availability before the aggregator stage
Availability(repo_ref, github_data) ==
    IF repo_ref = "none" THEN "no_repo"
    ELSE IF repo_ref # "github" THEN "not_github"
    ELSE IF github_data = None THEN "repo_not_found"
    ELSE "available"

\* stage 2.5 runs under "if github_data and repo_ref"
CveStageRuns(github_data, repo_ref) == github_data # None /\ repo_ref # "none"

\* stage 2.6 runs under "if self.supply_chain and ecosystem == Ecosystem.NPM"
SupplyChainStageRuns(ecosystem) == ecosystem = "npm"

\* stage 2.7: a non-GitHub repository with project data from deps.dev
PartialForge(availability, aggregator_data) ==
    /\ availability = "not_github"
    /\ aggregator_data # None
    /\ aggregator_data[1].has_project_data

\* stage 3 is entered without a look at the repository facts
LlmStageRunsMutantNoRepoFacts(llm_skipped, github_data) == ~llm_skipped

\* stage 3 runs under "if self.llm and github_data"
LlmStageRuns(llm_skipped, github_data) == ~llm_skipped /\ github_data # None

\* the seven assessments in the order the sequential runner takes them
Assessments == <<"readme", "sentiment", "communication", "maintenance", "changelog",
                 "governance", "security">>
AssessmentSet == {Assessments[i] : i \in 1..Len(Assessments)}

\* every assessment but maintenance prompts on content fetched for it
NeedsContent(a) == a # "maintenance"

\* readme, changelog and governance are taken up only when
\* github_data.files says the file is there; a defaulted files record says
\* it is not
TakenUp(a, github_data) ==
    IF a \in {"readme", "changelog", "governance"}
      THEN IF github_data = None THEN FALSE ELSE github_data[1]["files"] = "data"
      ELSE TRUE

\* The try blocks of _run_llm_assessments_sequential: the fetch of every
\* assessment is inside its try except the README's, whose try holds the
\* assess_readme call only.
FetchGuarded(a) == a # "readme"

\* Phase 2 of the parallel runner is entered with the fetches still running
FetchesDoneMutantEarly(pending) == TRUE

\* the first asyncio.gather returns when every fetch has finished
FetchesDone(pending) == pending = {}

\* the tasks Phase 2 creates: one per fetch that brought content, and the
\* maintenance assessment always
LlmTasks(fetch_results) == fetch_results \cup {"maintenance"}

\* the parameters of Scorer.calculate_scores and the arguments the call in
\* stage 4 passes; Python raises TypeError on a keyword the callee lacks
ScorerParameters ==
    {"github_data", "llm_assessments", "install_count", "ecosystem", "metadata",
     "supply_chain"}
ScoringArguments ==
    {"github_data", "llm_assessments", "install_count", "ecosystem", "metadata",
     "supply_chain", "aggregator_data"}
ScoringCallRaises == ~(ScoringArguments \subseteq ScorerParameters)

\* stage 4: can_score
can_score(availability, github_data, aggregator_data) ==
    \/ availability = "available" /\ github_data # None
    \/ availability = "partial_forge" /\ aggregator_data # None

\* The analyses analyze_package can return, by what the daemon reads of
\* them: stage 4 gives scores to the scorable ones, and a call that raises
\* returns nothing.
DataAvailabilities == {"available", "partial_forge", "no_repo", "not_github", "repo_not_found"}
ReturnedAnalyses ==
    {a \in [data_availability : DataAvailabilities, scores : BOOLEAN] :
        /\ a.scores <=> a.data_availability \in {"available", "partial_forge"}
        /\ a.scores => ~ScoringCallRaises}

\* the analysis went through the GitHub fetcher
FetchedFromGitHub(availability) == availability \in {"available", "repo_not_found"}

\* _analyze_package: how the daemon records an analysis that returned
RecordedStatus(availability, scores) ==
    IF availability = "available" /\ scores THEN "scored" ELSE "unavailable"

\* analyze_package before its first statement
NoAnalysis ==
    [pc |-> "idle",
     ecosystem |-> "homebrew",
     parallel_llm |-> FALSE,
     faults |-> 0,                   \* departures from the nominal outcome so far
     repo_ref |-> "none",            \* "none", "github" or another platform
     repo_info |-> "unasked",        \* what _fetch_repo_info met
     sub_error |-> FALSE,            \* a sub-fetch of fetch_repo_data raised
     data_availability |-> "available",
     github_data |-> None,
     cve_called |-> FALSE,           \* osv.fetch_cve_history was called
     cve_history |-> FALSE,          \* ... and its result attached
     supply_chain_data |-> FALSE,
     aggregator_data |-> None,
     llm_available |-> "unasked",
     next_assessment |-> 1,          \* sequential runner: the assessment to take up
     fetch_pending |-> {},           \* parallel runner: fetches under way
     fetch_failed |-> {},            \* fetches that raised
     fetch_results |-> {},           \* fetches that brought content
     llm_pending |-> {},             \* parallel runner: LLM calls under way
     llm_calls |-> {},               \* assessments whose LLM call was issued
     llm_failed |-> {},              \* LLM calls that raised
     assessments |-> {},             \* assessments present in llm_assessments
     llm_assessments |-> FALSE,      \* llm_assessments is not None
     scores |-> FALSE,
     analysis_summary |-> "none",
     analysis |-> FALSE,             \* the PackageAnalysis was built
     artifact |-> NoFile,            \* <data>/analyzed/<ecosystem>/<name>.json
     previous |-> NoFile,            \* the artifact before this analysis
     reader_saw |-> "nothing",       \* what a reader of the artifact met
     raised_at |-> "none"]           \* the stage whose exception left analyze_package

(***************************************************************************)
(* The daemon's environment                                                *)
(***************************************************************************)
DaemonListing == [e \in Ecosystems |->
                    IF e = "homebrew" THEN <<"pkg1">>
                    ELSE IF e = "npm" THEN <<"pkg1", "pkg2">>
                    ELSE <<>>]

\* nothing analyzed yet
DaemonFilesEmpty == [key \in AllKeys |-> NoFile]

\* homebrew/pkg1 analyzed just now, npm/pkg2 analyzed more than a week ago
DaemonFilesMixed ==
    [key \in AllKeys |->
        IF key = <<"homebrew", "pkg1">> THEN Artifact(0)
        ELSE IF key = <<"npm", "pkg2">> THEN Artifact(0 - STALE_THRESHOLD_SECONDS - 1)
        ELSE NoFile]

\* what a GitHub response leaves in the fetcher: the remaining quota and the
\* seconds from the response to the reset
RateLimitReports == {[remaining |-> 49, reset_in |-> 5],
                     [remaining |-> 49, reset_in |-> 70],
                     [remaining |-> 50, reset_in |-> 70]}

\* GitHubFetcher._update_rate_limits, on the fetcher of ecosystem e
update_rate_limits(rl, e, report, t) ==
    [rl EXCEPT ![e] = [remaining |-> report.remaining, reset |-> Some(t + report.reset_in)]]

\* no computation of the scorer or of a fetcher's parser is under way
NoCalc == [op |-> "none"]

\* ContinuousPipeline.__init__, with its MetricsCollector and publisher
Constructed ==
    /\ pc = "start"
    /\ wake_at = None
    /\ shutdown_requested = FALSE
    /\ current_package = None
    /\ consecutive_errors = 0
    /\ last_queue_refresh = None
    /\ total_analyzed = 0
    /\ pipelines = <<>>
    /\ rate_limit = [e \in Ecosystems |-> FreshFetcher]
    /\ rl_exc = None
    /\ sleep = NoSleep
    /\ metrics = PipelineMetrics
    /\ metrics_file = PipelineMetrics
    /\ publisher = NewPublisher
    /\ obs = NothingObserved
    /\ an = NoAnalysis

\* WorkQueue.__init__
EmptyQueue ==
    /\ new_queue = <<>> /\ stale_queue = <<>>
    /\ cycle_position = 0
    /\ all_packages = {}
    /\ last_get = NoCall
    /\ cycle_log = NotTracking

DaemonInit ==
    /\ new_ratio = 3 /\ stale_ratio = 1
    /\ EmptyQueue
    /\ listing = DaemonListing
    /\ files \in {DaemonFilesEmpty, DaemonFilesMixed}
    /\ now = 0
    /\ skip_llm \in BOOLEAN
    /\ no_publish \in BOOLEAN
    /\ Constructed
    /\ calc = NoCalc

(***************************************************************************)
(* run() up to the main loop                                               *)
(***************************************************************************)
staticVars == <<new_ratio, stale_ratio, listing, skip_llm, no_publish, an, calc>>

ListFailureChoices == {{}, {"npm"}}

\* _refresh_queue_if_needed past its early return: the queue is rebuilt and
\* the queue totals go to the metrics file
\* The collector's own methods mutate and save inside "with self._lock"; the
\* daemon's direct writes to metrics._metrics and direct calls of _save()
\* take no lock.
CollectorMethods ==
    {"start_package", "complete_package", "record_error", "update_github_rate_limit",
     "update_osv_status"}
HoldsLock(writer) == writer \in CollectorMethods
WrittenBy(unlocked, writer) == IF HoldsLock(writer) THEN unlocked ELSE unlocked \cup {writer}

DoRefresh(failed) ==
    LET r == refresh(new_queue, stale_queue, listing, files, now, failed)
    IN /\ new_queue' = r.new_queue
       /\ stale_queue' = r.stale_queue
       /\ all_packages' = r.all_packages
       /\ last_queue_refresh' = Some(now)
       /\ metrics' = QueueTotals(metrics, r.stats)
       /\ metrics_file' = metrics'
       /\ cycle_log' = NotTracking
       /\ obs' = [obs EXCEPT !.refreshes = @ + 1, !.handed = {}, !.analyzed = {},
                             !.unlocked = WrittenBy(@, "_refresh_queue_if_needed"),
                             !.idle_refresh =
                                 IF /\ last_get.called /\ last_get.result = None
                                    /\ ~shutdown_requested
                                    /\ r.new_queue \o r.stale_queue # <<>>
                                   THEN "pending" ELSE "none"]

\* if not force and self._last_queue_refresh: elapsed < QUEUE_REFRESH_INTERVAL
RefreshDue(force) ==
    IF force \/ last_queue_refresh = None THEN TRUE
    ELSE now - last_queue_refresh[1] >= QUEUE_REFRESH_INTERVAL

\* await self._refresh_queue_if_needed(force=True)
RunStart ==
    /\ pc = "start"
    /\ RefreshDue(TRUE)
    /\ \E failed \in ListFailureChoices : DoRefresh(failed)
    /\ pc' = "mark_running"
    /\ UNCHANGED <<staticVars, cycle_position, files, now, wake_at, shutdown_requested,
                   current_package, consecutive_errors, total_analyzed, pipelines,
                   rate_limit, rl_exc, sleep, publisher, last_get>>

\* the initial refresh raises: run() ends before its try block is entered
RunStartRaises ==
    /\ pc = "start"
    /\ pc' = "crashed"
    /\ obs' = [obs EXCEPT !.exit_by = "startup"]
    /\ UNCHANGED <<wqVars, envVars, cfgVars, wake_at, shutdown_requested, current_package,
                   consecutive_errors, last_queue_refresh, total_analyzed, pipelines,
                   rate_limit, rl_exc, sleep, outVars, last_get, cycle_log>>

\* is_running = True, _save(), and the LLM probe, which creates the
\* homebrew pipeline unless skip_llm
MarkRunning ==
    /\ pc = "mark_running"
    /\ metrics' = [metrics EXCEPT !.is_running = TRUE]
    /\ metrics_file' = metrics'
    /\ pipelines' = IF skip_llm THEN pipelines ELSE get_pipeline(pipelines, "homebrew")
    /\ pc' = "loop_head"
    /\ obs' = [obs EXCEPT !.unlocked = WrittenBy(@, "run")]
    /\ UNCHANGED <<wqVars, envVars, cfgVars, wake_at, shutdown_requested, current_package,
                   consecutive_errors, last_queue_refresh, total_analyzed,
                   rate_limit, rl_exc, sleep, publisher, last_get, cycle_log>>

(***************************************************************************)
(* _main_loop                                                              *)
(***************************************************************************)
\* while not self._shutdown_requested
LoopHead ==
    /\ pc = "loop_head"
    /\ IF LoopContinues(shutdown_requested)
         THEN pc' = "refresh" /\ obs' = obs
       ELSE pc' = "finally" /\ obs' = [obs EXCEPT !.exit_by = "shutdown"]
    /\ UNCHANGED <<wqVars, envVars, cfgVars, wake_at, shutdown_requested, current_package,
                   consecutive_errors, last_queue_refresh, total_analyzed, pipelines,
                   rate_limit, rl_exc, sleep, outVars, last_get, cycle_log>>

\* _refresh_queue_if_needed returns early
RefreshSkip ==
    /\ pc = "refresh"
    /\ ~RefreshDue(FALSE)
    /\ pc' = "get_next"
    /\ UNCHANGED <<wqVars, envVars, cfgVars, wake_at, shutdown_requested, current_package,
                   consecutive_errors, last_queue_refresh, total_analyzed, pipelines,
                   rate_limit, rl_exc, sleep, outVars, last_get, cycle_log, obs>>

RefreshQueue ==
    /\ pc = "refresh"
    /\ RefreshDue(FALSE)
    /\ \E failed \in ListFailureChoices : DoRefresh(failed)
    /\ pc' = "get_next"
    /\ UNCHANGED <<staticVars, cycle_position, files, now, wake_at, shutdown_requested,
                   current_package, consecutive_errors, total_analyzed, pipelines,
                   rate_limit, rl_exc, sleep, publisher, last_get>>

\* work_queue.refresh() raises: the exception leaves _main_loop
RefreshRaises ==
    /\ pc = "refresh"
    /\ RefreshDue(FALSE)
    /\ pc' = "finally"
    /\ obs' = [obs EXCEPT !.exit_by = "exception"]
    /\ UNCHANGED <<wqVars, envVars, cfgVars, wake_at, shutdown_requested, current_package,
                   consecutive_errors, last_queue_refresh, total_analyzed, pipelines,
                   rate_limit, rl_exc, sleep, outVars, last_get, cycle_log>>

\* package = self.work_queue.get_next_package(); an empty queue sleeps 60 s
GetNext ==
    /\ pc = "get_next"
    /\ LET r == get_next_package(new_queue, stale_queue, cycle_position,
                                 new_ratio, stale_ratio)
       IN /\ new_queue' = r.new_queue
          /\ stale_queue' = r.stale_queue
          /\ cycle_position' = r.cycle_position
          /\ last_get' = ObserveGet(r)
          /\ cycle_log' = ObserveCycle(r)
          /\ current_package' = r.package
          /\ IF r.package = None
               THEN /\ sleep' = StartSleep(now, EMPTY_QUEUE_SLEEP, "empty")
                    /\ pc' = "sleep_check"
                    /\ obs' = [obs EXCEPT
                          !.idle_refresh =
                              IF @ = "pending" /\ ~shutdown_requested THEN "lost" ELSE @,
                          !.backpressure =
                              IF @ = "turned_away" /\ ~shutdown_requested
                                THEN "drained" ELSE @]
             ELSE /\ sleep' = sleep
                  /\ pc' = "check_rate"
                  /\ obs' = [obs EXCEPT
                        !.handed = @ \cup {PackageKey(r.package[1])},
                        !.repeat = @ \/ PackageKey(r.package[1]) \in obs.handed,
                        !.checked_current = FALSE,
                        !.started_current = FALSE,
                        !.dequeued_after_shutdown = @ \/ shutdown_requested]
    /\ UNCHANGED <<staticVars, all_packages, files, now, wake_at, shutdown_requested,
                   consecutive_errors, last_queue_refresh, total_analyzed, pipelines,
                   rate_limit, rl_exc, outVars>>

\* await self._check_rate_limits()
CheckRateLimits ==
    /\ pc = "check_rate"
    /\ rl_exc' = check_rate_limits(pipelines, rate_limit, RATE_LIMIT_THRESHOLD)
    /\ pc' = IF rl_exc' = None THEN "pre_analyze" ELSE "handle_rl"
    /\ obs' = [obs EXCEPT !.checked_current = TRUE,
                          !.backpressure =
                              IF rl_exc' # None /\ ~shutdown_requested /\ @ = "none"
                                THEN "raised" ELSE @]
    /\ UNCHANGED <<wqVars, envVars, cfgVars, wake_at, shutdown_requested, current_package,
                   consecutive_errors, last_queue_refresh, total_analyzed, pipelines,
                   rate_limit, sleep, outVars, last_get, cycle_log>>

\* if self._shutdown_requested: break (the finally clause clears
\* _current_package; the package is not put back)
BreakOnShutdown ==
    /\ pc = "pre_analyze"
    /\ shutdown_requested
    /\ current_package' = None
    /\ pc' = "finally"
    /\ obs' = [obs EXCEPT !.exit_by = "shutdown"]
    /\ UNCHANGED <<wqVars, envVars, cfgVars, wake_at, shutdown_requested,
                   consecutive_errors, last_queue_refresh, total_analyzed, pipelines,
                   rate_limit, rl_exc, sleep, outVars, last_get, cycle_log>>

\* _analyze_package up to its await: the pipeline is fetched or created and
\* start_package() writes the metrics file
AnalyzeStart ==
    /\ pc = "pre_analyze"
    /\ ~shutdown_requested
    /\ now + AnalysisTime <= MaxTime
    /\ pipelines' = get_pipeline(pipelines, current_package[1].ecosystem)
    /\ metrics' = start_package(metrics, CurrentName)
    /\ metrics_file' = metrics'
    /\ wake_at' = Some(now + AnalysisTime)
    /\ pc' = "analyzing"
    /\ obs' = [obs EXCEPT !.unlocked = WrittenBy(@, "start_package"),
                          !.analyzed = @ \cup {CurrentKey},
                          !.repeat = @ \/ CurrentKey \in obs.analyzed,
                          !.started_current = TRUE,
                          !.idle_refresh = IF @ = "pending" THEN "resumed" ELSE @,
                          !.backpressure = "none",
                          !.started_after_shutdown = @ \/ shutdown_requested]
    /\ UNCHANGED <<wqVars, envVars, cfgVars, shutdown_requested, current_package,
                   consecutive_errors, last_queue_refresh, total_analyzed,
                   rate_limit, rl_exc, sleep, publisher, last_get, cycle_log>>

\* pipeline.analyze_package returns one of the analyses it can return: the
\* artifact is saved, the outcome is counted, the error counter is reset.
\* An analysis of a GitHub repository went through the fetcher, which read
\* the rate limit from the responses.
AnalyzeSucceeds ==
    /\ pc = "analyzing"
    /\ \E analysis \in ReturnedAnalyses :
         /\ IF FetchedFromGitHub(analysis.data_availability)
              THEN \E report \in RateLimitReports :
                     rate_limit' = update_rate_limits(rate_limit,
                                       current_package[1].ecosystem, report, wake_at[1])
            ELSE rate_limit' = rate_limit
         /\ metrics' = complete_package(metrics, CurrentName,
                            RecordedStatus(analysis.data_availability, analysis.scores))
    /\ metrics_file' = metrics'
    /\ now' = wake_at[1]
    /\ wake_at' = None
    /\ files' = [files EXCEPT ![CurrentKey] = Artifact(wake_at[1])]
    /\ consecutive_errors' = 0
    /\ total_analyzed' = total_analyzed + 1
    /\ IF no_publish
         THEN pc' = "loop_head" /\ current_package' = None
       ELSE pc' = "publish" /\ current_package' = current_package
    /\ obs' = [obs EXCEPT !.unlocked = WrittenBy(@, "complete_package"),
                          !.in_flight_done = @ \/ obs.in_flight]
    /\ UNCHANGED <<wqVars, listing, cfgVars, shutdown_requested, last_queue_refresh,
                   pipelines, rl_exc, sleep, publisher, last_get, cycle_log>>

\* pipeline.analyze_package raises, before or after a GitHub response was
\* seen: _analyze_package records the error and re-raises
AnalyzeFails ==
    /\ pc = "analyzing"
    /\ \/ rate_limit' = rate_limit
       \/ \E report \in RateLimitReports :
            rate_limit' = update_rate_limits(rate_limit, current_package[1].ecosystem,
                                             report, wake_at[1])
    /\ metrics' = record_error(metrics)
    /\ metrics_file' = metrics'
    /\ now' = wake_at[1]
    /\ wake_at' = None
    /\ pc' = "handle_error"
    /\ obs' = [obs EXCEPT !.unlocked = WrittenBy(@, "record_error"),
                          !.failure = [failed |-> TRUE,
                                       recent_errors |-> metrics.recent_errors,
                                       error_count |-> metrics.error_count,
                                       completed_packages |-> metrics.completed_packages],
                          !.in_flight_done = @ \/ obs.in_flight]
    /\ UNCHANGED <<wqVars, listing, files, cfgVars, shutdown_requested, current_package,
                   consecutive_errors, last_queue_refresh, total_analyzed, pipelines,
                   rl_exc, sleep, publisher, last_get, cycle_log>>

\* self.publisher.record_package(); await self.publisher.maybe_publish()
MaybePublish ==
    /\ pc = "publish"
    /\ publisher' = maybe_publish(record_package(publisher))
    /\ current_package' = None
    /\ pc' = "loop_head"
    /\ UNCHANGED <<wqVars, envVars, cfgVars, wake_at, shutdown_requested,
                   consecutive_errors, last_queue_refresh, total_analyzed, pipelines,
                   rate_limit, rl_exc, sleep, metrics, metrics_file, last_get,
                   cycle_log, obs>>

\* _handle_rate_limit_exhausted when the reset time has passed: no sleep
RateLimitResetPassed ==
    /\ pc = "handle_rl"
    /\ ResetPassed(rl_exc[1].reset_time, now)
    /\ rl_exc' = None
    /\ current_package' = None
    /\ pc' = "loop_head"
    /\ obs' = [obs EXCEPT !.rl_handled = [handled |-> TRUE,
                              reset_time |-> rl_exc[1].reset_time,
                              at |-> now, slept |-> FALSE,
                              next |-> "loop_head"],
                          !.backpressure =
                              IF ~shutdown_requested /\ @ \in {"raised", "turned_away"}
                                THEN "turned_away" ELSE @]
    /\ UNCHANGED <<wqVars, envVars, cfgVars, wake_at, shutdown_requested,
                   consecutive_errors, last_queue_refresh, total_analyzed, pipelines,
                   rate_limit, sleep, outVars, last_get, cycle_log>>

\* _handle_rate_limit_exhausted when the reset lies ahead: the metrics
\* snapshot takes the remaining quota (no save) and the sleep begins
RateLimitSleep ==
    /\ pc = "handle_rl"
    /\ ~ResetPassed(rl_exc[1].reset_time, now)
    /\ sleep' = StartSleep(now, RateLimitSleepSeconds(rl_exc[1].reset_time, now),
                           "rate_limit")
    /\ pc' = "sleep_check"
    /\ obs' = [obs EXCEPT !.rl_handled = [handled |-> TRUE,
                              reset_time |-> rl_exc[1].reset_time,
                              at |-> now, slept |-> TRUE,
                              next |-> "sleep_check"]]
    /\ metrics' = update_github_rate_limit(metrics, rl_exc[1].remaining)
    /\ UNCHANGED <<wqVars, envVars, cfgVars, wake_at, shutdown_requested, current_package,
                   consecutive_errors, last_queue_refresh, total_analyzed, pipelines,
                   rate_limit, rl_exc, metrics_file, publisher, last_get, cycle_log>>

\* _interruptible_sleep: one more asyncio.sleep of at most 10 s
SleepPoll ==
    /\ pc = "sleep_check"
    /\ now - sleep.start < sleep.seconds
    /\ ~shutdown_requested
    /\ now + SleepChunk(sleep.seconds, now - sleep.start) <= MaxTime
    /\ wake_at' = Some(now + SleepChunk(sleep.seconds, now - sleep.start))
    /\ pc' = "sleep_wait"
    /\ UNCHANGED <<wqVars, envVars, cfgVars, shutdown_requested, current_package,
                   consecutive_errors, last_queue_refresh, total_analyzed, pipelines,
                   rate_limit, rl_exc, sleep, outVars, last_get, cycle_log, obs>>

SleepWake ==
    /\ pc = "sleep_wait"
    /\ now' = wake_at[1]
    /\ wake_at' = None
    /\ pc' = "sleep_check"
    /\ UNCHANGED <<wqVars, listing, files, cfgVars, shutdown_requested, current_package,
                   consecutive_errors, last_queue_refresh, total_analyzed, pipelines,
                   rate_limit, rl_exc, sleep, outVars, last_get, cycle_log, obs>>

\* _interruptible_sleep returns, the time being up or the flag set; the
\* loop goes to its next iteration
SleepReturn ==
    /\ pc = "sleep_check"
    /\ now - sleep.start >= sleep.seconds \/ shutdown_requested
    /\ obs' = [obs EXCEPT !.last_sleep =
                  [returned |-> TRUE, reason |-> sleep.reason, start |-> sleep.start,
                   seconds |-> sleep.seconds,
                   reset_time |-> IF rl_exc = None THEN 0 ELSE rl_exc[1].reset_time,
                   returned_at |-> now,
                   interrupted |-> now - sleep.start < sleep.seconds,
                   flag_at |-> obs.shutdown_at]]
    /\ sleep' = NoSleep
    /\ rl_exc' = None
    /\ current_package' = None
    /\ pc' = "loop_head"
    /\ UNCHANGED <<wqVars, envVars, cfgVars, wake_at, shutdown_requested,
                   consecutive_errors, last_queue_refresh, total_analyzed, pipelines,
                   rate_limit, outVars, last_get, cycle_log>>

\* _handle_error up to its await: the failure is counted, the back-off
\* computed, the error recorded a second time and the package completed
\* with status "error".  An OverflowError in the computation leaves
\* _main_loop.
HandleError ==
    /\ pc = "handle_error"
    /\ consecutive_errors' = consecutive_errors + 1
    /\ LET backoff == ErrorBackoff(consecutive_errors + 1)
       IN /\ obs' = [obs EXCEPT
                       !.unlocked = IF backoff.raised THEN @
                                    ELSE WrittenBy(WrittenBy(@, "record_error"),
                                                   "complete_package"),
                       !.backoff = [applied |-> TRUE, n |-> consecutive_errors + 1,
                                    raised |-> backoff.raised, seconds |-> backoff.seconds],
                       !.exit_by = IF backoff.raised THEN "exception" ELSE @]
          /\ IF backoff.raised
               THEN /\ pc' = "finally"
                    /\ current_package' = None
                    /\ UNCHANGED <<wake_at, metrics, metrics_file>>
             ELSE /\ now + backoff.seconds <= MaxTime
                  /\ metrics' = complete_package(record_error(metrics), CurrentName, "error")
                  /\ metrics_file' = metrics'
                  /\ wake_at' = Some(now + backoff.seconds)
                  /\ pc' = "backoff"
                  /\ current_package' = current_package
    /\ UNCHANGED <<wqVars, envVars, cfgVars, shutdown_requested, last_queue_refresh,
                   total_analyzed, pipelines, rate_limit, rl_exc, sleep, publisher,
                   last_get, cycle_log>>

\* await asyncio.sleep(backoff) completes
BackoffDone ==
    /\ pc = "backoff"
    /\ now' = wake_at[1]
    /\ wake_at' = None
    /\ current_package' = None
    /\ pc' = "loop_head"
    /\ obs' = [obs EXCEPT !.failure = NoFailure]
    /\ UNCHANGED <<wqVars, listing, files, cfgVars, shutdown_requested,
                   consecutive_errors, last_queue_refresh, total_analyzed, pipelines,
                   rate_limit, rl_exc, sleep, outVars, last_get, cycle_log>>

\* the finally block of run()
RunFinally ==
    /\ pc = "finally"
    /\ publisher' = IF no_publish THEN publisher ELSE force_publish(publisher)
    /\ metrics' = FinalMetrics(metrics)
    /\ metrics_file' = metrics'
    /\ pc' = "stopped"
    /\ obs' = [obs EXCEPT !.unlocked = WrittenBy(@, "run finally")]
    /\ UNCHANGED <<wqVars, envVars, cfgVars, wake_at, shutdown_requested, current_package,
                   consecutive_errors, last_queue_refresh, total_analyzed, pipelines,
                   rate_limit, rl_exc, sleep, last_get, cycle_log>>

Waiting == pc \in {"analyzing", "sleep_wait", "backoff"}

\* when a signal can reach the daemon: at once, or while the await under
\* way is still pending
SignalTimes ==
    IF Waiting THEN {now, Min(now + SignalDelay, wake_at[1]), wake_at[1]} ELSE {now}

\* handle_shutdown, installed by _setup_signal_handlers for SIGINT and
\* SIGTERM: the flag is set and nothing else
HandleShutdown ==
    /\ pc \notin {"stopped", "crashed"}
    /\ ~shutdown_requested
    /\ \E t \in SignalTimes :
         /\ now' = t
         /\ obs' = [obs EXCEPT !.shutdown_at = t, !.in_flight = (pc = "analyzing"),
                               !.idle_refresh = IF @ = "pending" THEN "none" ELSE @,
                               !.backpressure = "none"]
    /\ shutdown_requested' = TRUE
    /\ UNCHANGED <<wqVars, listing, files, cfgVars, pc, wake_at, current_package,
                   consecutive_errors, last_queue_refresh, total_analyzed, pipelines,
                   rate_limit, rl_exc, sleep, outVars, last_get, cycle_log>>

Next ==
    \/ RunStart \/ RunStartRaises \/ MarkRunning
    \/ LoopHead
    \/ RefreshSkip \/ RefreshQueue \/ RefreshRaises
    \/ GetNext
    \/ CheckRateLimits
    \/ BreakOnShutdown
    \/ AnalyzeStart \/ AnalyzeSucceeds \/ AnalyzeFails
    \/ MaybePublish
    \/ RateLimitResetPassed \/ RateLimitSleep
    \/ SleepPoll \/ SleepWake \/ SleepReturn
    \/ HandleError \/ BackoffDone
    \/ RunFinally
    \/ HandleShutdown

Spec == DaemonInit /\ [][Next]_vars

(***************************************************************************)
(* The work queue driven through its public methods                        *)
(***************************************************************************)
QueueRatios == {r \in (1..MaxCycle) \X (1..MaxCycle) : r[1] + r[2] <= MaxCycle}

QueueListing == [e \in Ecosystems |-> SubSeq(PackageNames, 1, NamesPerEcosystem)]

EcosystemIndex(e) == CHOOSE k \in 1..Len(EcosystemOrder) : EcosystemOrder[k] = e

\* analyzed_at of an artifact older than the stale threshold; several
\* packages share a timestamp, so the sort has ties to keep in order
OldStamp(e, i) == 0 - STALE_THRESHOLD_SECONDS - 1 - 10 * ((i + EcosystemIndex(e)) % 3)

\* the last k[e] packages of ecosystem e are stale; the first of each
\* ecosystem in fresh was analyzed just now (pypi's left a garbled file)
QueueFiles(k, fresh) ==
    [key \in AllKeys |->
        IF NameIndex(key[2]) > NamesPerEcosystem
          THEN NoFile
        ELSE IF NameIndex(key[2]) > NamesPerEcosystem - k[key[1]]
          THEN Artifact(OldStamp(key[1], NameIndex(key[2])))
        ELSE IF NameIndex(key[2]) = 1 /\ key[1] \in fresh
          THEN (IF key[1] = "pypi" THEN Garbled ELSE Artifact(0))
        ELSE NoFile]

QInit ==
    /\ \E r \in QueueRatios : new_ratio = r[1] /\ stale_ratio = r[2]
    /\ EmptyQueue
    /\ listing = QueueListing
    /\ \E k \in [Ecosystems -> 0..NamesPerEcosystem], fresh \in {{}, {"homebrew", "pypi"}} :
         files = QueueFiles(k, fresh)
    /\ now = 0
    /\ skip_llm = FALSE
    /\ no_publish = FALSE
    /\ Constructed
    /\ calc = NoCalc

\* WorkQueue.refresh()
QRefresh ==
    /\ \E failed \in ListFailureChoices :
         LET r == refresh(new_queue, stale_queue, listing, files, now, failed)
         IN /\ new_queue' = r.new_queue
            /\ stale_queue' = r.stale_queue
            /\ all_packages' = r.all_packages
    /\ cycle_log' = NotTracking
    /\ UNCHANGED <<new_ratio, stale_ratio, cycle_position, envVars, daemonVars, last_get>>

\* WorkQueue.get_next_package()
QGetNext ==
    /\ LET r == get_next_package(new_queue, stale_queue, cycle_position,
                                 new_ratio, stale_ratio)
       IN /\ new_queue' = r.new_queue
          /\ stale_queue' = r.stale_queue
          /\ cycle_position' = r.cycle_position
          /\ last_get' = ObserveGet(r)
          /\ cycle_log' = ObserveCycle(r)
    /\ UNCHANGED <<new_ratio, stale_ratio, all_packages, envVars, daemonVars>>

QNext == QRefresh \/ QGetNext

SpecQueue == QInit /\ [][QNext]_vars

(***************************************************************************)
(* Consecutive failures: each analysis either fails, which runs the        *)
(* counting and the back-off computation of _handle_error, or succeeds,    *)
(* which resets the counter in _main_loop.                                 *)
(***************************************************************************)
BInit ==
    /\ new_ratio = 3 /\ stale_ratio = 1
    /\ EmptyQueue
    /\ listing = DaemonListing
    /\ files = DaemonFilesEmpty
    /\ now = 0
    /\ skip_llm = FALSE
    /\ no_publish = FALSE
    /\ Constructed
    /\ calc = NoCalc

BFail ==
    /\ ~obs.backoff.raised
    /\ consecutive_errors < MaxConsecutiveErrors
    /\ consecutive_errors' = consecutive_errors + 1
    /\ LET backoff == ErrorBackoff(consecutive_errors + 1)
       IN obs' = [obs EXCEPT
                    !.backoff = [applied |-> TRUE, n |-> consecutive_errors + 1,
                                 raised |-> backoff.raised, seconds |-> backoff.seconds],
                    !.exit_by = IF backoff.raised THEN "exception" ELSE @]
    /\ UNCHANGED <<wqVars, envVars, cfgVars, pc, wake_at, shutdown_requested,
                   current_package, last_queue_refresh, total_analyzed, pipelines,
                   rate_limit, rl_exc, sleep, outVars, last_get, cycle_log>>

BSucceed ==
    /\ ~obs.backoff.raised
    /\ consecutive_errors' = 0
    /\ obs' = [obs EXCEPT !.backoff = NoBackoff]
    /\ UNCHANGED <<wqVars, envVars, cfgVars, pc, wake_at, shutdown_requested,
                   current_package, last_queue_refresh, total_analyzed, pipelines,
                   rate_limit, rl_exc, sleep, outVars, last_get, cycle_log>>

BNext == BFail \/ BSucceed

SpecBackoff == BInit /\ [][BNext]_vars

(***************************************************************************)
(* One analyze_package call, stage by stage.  Every await of the call meets *)
(* an outcome chosen by the environment; at most MaxFaults of them depart   *)
(* from the nominal one.                                                    *)
(***************************************************************************)
AInit ==
    /\ new_ratio = 3 /\ stale_ratio = 1
    /\ EmptyQueue
    /\ listing = DaemonListing
    /\ files = DaemonFilesEmpty
    /\ now = 0
    /\ skip_llm \in BOOLEAN
    /\ no_publish = FALSE
    /\ Constructed
    /\ calc = NoCalc

analysisFrame ==
    <<wqVars, envVars, skip_llm, no_publish, calc, loopVars, metrics_file, publisher,
      obs, last_get, cycle_log>>

Budget(cost) == an.faults + cost <= MaxFaults

Raise(stage) == [an EXCEPT !.pc = "raised", !.raised_at = stage]

\* analyze_package(package_name, save=True) is called on a pipeline of some
\* ecosystem; the package may have an artifact from an earlier analysis
AnalyzeCall ==
    /\ an.pc = "idle"
    /\ \E e \in Ecosystems, par \in BOOLEAN,
          prev \in {NoFile, Artifact(now - STALE_THRESHOLD_SECONDS)} :
         an' = [an EXCEPT !.pc = "metadata", !.ecosystem = e, !.parallel_llm = par,
                          !.artifact = prev, !.previous = prev]
    /\ UNCHANGED <<analysisFrame, metrics>>

\* Stage 1: get_package_metadata, get_install_stats, get_source_repo
FetchMetadata ==
    /\ an.pc = "metadata"
    /\ \/ an' = Raise("metadata")
       \/ \E r \in {"none", "github", "gitlab"} :
            an' = [an EXCEPT !.pc = "repo", !.repo_ref = r]
    /\ UNCHANGED <<analysisFrame, metrics>>

\* Stage 2 for a package without a GitHub repository
NoGitHubRepo ==
    /\ an.pc = "repo"
    /\ an.repo_ref # "github"
    /\ an' = [an EXCEPT !.pc = "cve",
                        !.data_availability = Availability(an.repo_ref, None)]
    /\ UNCHANGED <<analysisFrame, metrics>>

\* Stage 2 for a GitHub repository: fetch_repo_data, then the rate limit the
\* fetcher read from the responses goes to the metrics
FetchRepoData ==
    /\ an.pc = "repo"
    /\ an.repo_ref = "github"
    /\ \E info \in FetchOutcomes, subs \in SubFetchRuns, rep \in RateLimitReports :
         LET r == fetch_repo_data(info, subs)
             cost == IF info # "ok" \/ \E s \in SubFetchSet : subs[s] # "ok" THEN 1 ELSE 0
             seen == [an EXCEPT !.repo_info = info,
                                !.sub_error = (info = "ok" /\ r.raised)]
         IN  /\ Budget(cost)
             /\ info # "ok" => subs = [s \in SubFetchSet |-> "ok"]
             /\ IF r.raised
                  THEN /\ an' = [seen EXCEPT !.pc = "raised", !.raised_at = "github",
                                             !.faults = @ + cost]
                       /\ UNCHANGED metrics
                  ELSE /\ an' = [seen EXCEPT
                                   !.pc = "cve",
                                   !.faults = @ + cost,
                                   !.github_data = r.data,
                                   !.data_availability = Availability(an.repo_ref, r.data)]
                       /\ metrics' = update_github_rate_limit(metrics, rep.remaining)
    /\ UNCHANGED analysisFrame

\* Stage 2.5: release dates and CVE history, inside a try
FetchCveHistory ==
    /\ an.pc = "cve"
    /\ IF CveStageRuns(an.github_data, an.repo_ref)
         THEN \E ok \in BOOLEAN :
                /\ Budget(IF ok THEN 0 ELSE 1)
                /\ an' = [an EXCEPT !.pc = "supply_chain",
                                    !.faults = @ + (IF ok THEN 0 ELSE 1),
                                    !.cve_called = TRUE,
                                    !.cve_history = ok]
                /\ metrics' = update_osv_status(metrics, IF ok THEN "OK" ELSE "error")
         ELSE /\ an' = [an EXCEPT !.pc = "supply_chain"]
              /\ UNCHANGED metrics
    /\ UNCHANGED analysisFrame

\* Stage 2.6: supply chain analysis (npm only), inside a try
SupplyChainAnalysis ==
    /\ an.pc = "supply_chain"
    /\ IF SupplyChainStageRuns(an.ecosystem)
         THEN \E ok \in BOOLEAN :
                /\ Budget(IF ok THEN 0 ELSE 1)
                /\ an' = [an EXCEPT !.pc = "deps_dev",
                                    !.faults = @ + (IF ok THEN 0 ELSE 1),
                                    !.supply_chain_data = ok]
         ELSE an' = [an EXCEPT !.pc = "deps_dev"]
    /\ UNCHANGED <<analysisFrame, metrics>>

\* Stage 2.7: deps.dev, inside a try; project data for a repository that is
\* not on GitHub upgrades the availability
FetchAggregator ==
    /\ an.pc = "deps_dev"
    /\ \E agg \in {None, Some([has_project_data |-> FALSE]), Some([has_project_data |-> TRUE])} :
         LET cost == IF agg = None THEN 1 ELSE 0
         IN  /\ Budget(cost)
             /\ an' = [an EXCEPT
                         !.pc = "llm",
                         !.faults = @ + cost,
                         !.aggregator_data = agg,
                         !.data_availability =
                             IF PartialForge(an.data_availability, agg)
                               THEN "partial_forge" ELSE @]
    /\ UNCHANGED <<analysisFrame, metrics>>

\* the fetches Phase 1 of the parallel runner starts
ContentFetches(github_data) ==
    {a \in AssessmentSet : NeedsContent(a) /\ TakenUp(a, github_data)}

\* Stage 3: is_available (which returns False on any failure), then the
\* runner the configuration names
LlmStage ==
    /\ an.pc = "llm"
    /\ IF LlmStageRuns(skip_llm, an.github_data)
         THEN \E avail \in BOOLEAN :
                an' = IF ~avail
                        THEN [an EXCEPT !.pc = "scoring", !.llm_available = "no"]
                      ELSE IF an.parallel_llm
                        THEN [an EXCEPT !.pc = "llm_fetch", !.llm_available = "yes",
                                        !.fetch_pending = ContentFetches(an.github_data)]
                      ELSE [an EXCEPT !.pc = "llm_sequential", !.llm_available = "yes"]
         ELSE an' = [an EXCEPT !.pc = "scoring"]
    /\ UNCHANGED <<analysisFrame, metrics>>

\* what one assessment of the sequential runner does to the call, given what
\* its fetch and its LLM call meet
assess_sequential(a, fetch, llm) ==
    LET next == IF an.next_assessment = Len(Assessments)
                  THEN [an EXCEPT !.pc = "scoring", !.llm_assessments = TRUE]
                  ELSE [an EXCEPT !.next_assessment = @ + 1]
        called == [next EXCEPT !.llm_calls = @ \cup {a}]
    IN  IF ~TakenUp(a, an.github_data) THEN next
        ELSE IF NeedsContent(a) /\ fetch = "error"
          THEN IF FetchGuarded(a)
                 THEN [next EXCEPT !.fetch_failed = @ \cup {a}]
                 ELSE [an EXCEPT !.pc = "raised", !.raised_at = "llm",
                                 !.fetch_failed = @ \cup {a}]
        ELSE IF NeedsContent(a) /\ fetch = "not_found" THEN next
        ELSE IF llm = "error" THEN [called EXCEPT !.llm_failed = @ \cup {a}]
        ELSE [called EXCEPT !.assessments = @ \cup {a}]

\* _run_llm_assessments_sequential, one assessment at a time
AssessSequential ==
    /\ an.pc = "llm_sequential"
    /\ \E fetch \in FetchOutcomes, llm \in {"ok", "error"} :
         LET a == Assessments[an.next_assessment]
             cost == (IF fetch # "ok" THEN 1 ELSE 0) + (IF llm # "ok" THEN 1 ELSE 0)
             r == assess_sequential(a, fetch, llm)
         IN  /\ Budget(cost)
             /\ an' = [r EXCEPT !.faults = @ + cost]
    /\ UNCHANGED <<analysisFrame, metrics>>

\* _run_llm_assessments_parallel, Phase 1: one of the gathered fetches ends
FetchContentDone ==
    /\ an.pc = "llm_fetch"
    /\ \E a \in an.fetch_pending, fetch \in FetchOutcomes :
         LET cost == IF fetch # "ok" THEN 1 ELSE 0
         IN  /\ Budget(cost)
             /\ an' = [an EXCEPT
                         !.faults = @ + cost,
                         !.fetch_pending = @ \ {a},
                         !.fetch_failed = IF fetch = "error" THEN @ \cup {a} ELSE @,
                         !.fetch_results = IF fetch = "ok" THEN @ \cup {a} ELSE @]
    /\ UNCHANGED <<analysisFrame, metrics>>

\* Phase 2 begins: the first gather has returned, the LLM calls are created
\* and gathered
StartLlmCalls ==
    /\ an.pc = "llm_fetch"
    /\ FetchesDone(an.fetch_pending)
    /\ an' = [an EXCEPT !.pc = "llm_calls",
                        !.llm_pending = LlmTasks(an.fetch_results),
                        !.llm_calls = LlmTasks(an.fetch_results)]
    /\ UNCHANGED <<analysisFrame, metrics>>

\* Phase 2 ends: the second gather returns once every LLM call has ended;
\* the calls that raised leave their assessment unset
LlmCallsDone ==
    /\ an.pc = "llm_calls"
    /\ \E failed \in SUBSET an.llm_pending :
         /\ Budget(Cardinality(failed))
         /\ an' = [an EXCEPT
                     !.pc = "scoring",
                     !.llm_assessments = TRUE,
                     !.faults = @ + Cardinality(failed),
                     !.llm_pending = {},
                     !.llm_failed = failed,
                     !.assessments = an.llm_pending \ failed]
    /\ UNCHANGED <<analysisFrame, metrics>>

\* Stages 4 and 5: scores and summary, then the PackageAnalysis
Score ==
    /\ an.pc = "scoring"
    /\ an' = IF can_score(an.data_availability, an.github_data, an.aggregator_data)
               THEN IF ScoringCallRaises
                      THEN Raise("scoring")
                      ELSE [an EXCEPT !.pc = "save", !.scores = TRUE,
                                      !.analysis_summary = "scored", !.analysis = TRUE]
               ELSE [an EXCEPT !.pc = "save", !.analysis_summary = "unavailable",
                               !.analysis = TRUE]
    /\ UNCHANGED <<analysisFrame, metrics>>

\* _save_analysis: mkdir, then write_text opens the artifact for writing,
\* which empties it
SaveOpen ==
    /\ an.pc = "save"
    /\ \/ an' = Raise("save")
       \/ an' = [an EXCEPT !.pc = "writing", !.artifact = Garbled]
    /\ UNCHANGED <<analysisFrame, metrics>>

\* write_text writes the JSON text and closes the file; analyze_package
\* returns the analysis
SaveWrite ==
    /\ an.pc = "writing"
    /\ \/ an' = Raise("save")
       \/ an' = [an EXCEPT !.pc = "returned", !.artifact = Artifact(now)]
    /\ UNCHANGED <<analysisFrame, metrics>>

\* the process is killed while the artifact is open for writing
KilledWhileWriting ==
    /\ an.pc = "writing"
    /\ an' = [an EXCEPT !.pc = "killed"]
    /\ UNCHANGED <<analysisFrame, metrics>>

\* what a reader finds in a file
Content(file, previous) ==
    IF file = NoFile THEN "absent"
    ELSE IF file = Garbled THEN "partial"
    ELSE IF file = previous THEN "previous"
    ELSE "new"

\* another process (a work queue refreshing, the dashboard) reads the artifact
ReadArtifact ==
    /\ an.pc \in {"save", "writing", "returned", "killed", "recorded"}
    /\ an.reader_saw = "nothing"
    /\ an' = [an EXCEPT !.reader_saw = Content(an.artifact, an.previous)]
    /\ UNCHANGED <<analysisFrame, metrics>>

\* The daemon's _analyze_package after the call has returned: the analysis
\* is counted as scored or as unavailable, and the file is saved.
RecordCompletion ==
    /\ an.pc = "returned"
    /\ an' = [an EXCEPT !.pc = "recorded"]
    /\ metrics' = complete_package(metrics, PackageNames[1],
                                   RecordedStatus(an.data_availability, an.scores))
    /\ metrics_file' = metrics'
    /\ UNCHANGED <<wqVars, envVars, skip_llm, no_publish, calc, loopVars, publisher,
                   obs, last_get, cycle_log>>

\* The daemon after the call has raised: _analyze_package records the error
\* and re-raises, _handle_error records it again and counts the package as
\* an error.
RecordFailure ==
    /\ an.pc = "raised"
    /\ an' = [an EXCEPT !.pc = "error_recorded"]
    /\ metrics' = complete_package(record_error(record_error(metrics)), PackageNames[1],
                                   "error")
    /\ metrics_file' = metrics'
    /\ UNCHANGED <<wqVars, envVars, skip_llm, no_publish, calc, loopVars, publisher,
                   obs, last_get, cycle_log>>

ANext ==
    \/ AnalyzeCall
    \/ FetchMetadata
    \/ NoGitHubRepo
    \/ FetchRepoData
    \/ FetchCveHistory
    \/ SupplyChainAnalysis
    \/ FetchAggregator
    \/ LlmStage
    \/ AssessSequential
    \/ FetchContentDone
    \/ StartLlmCalls
    \/ LlmCallsDone
    \/ Score
    \/ SaveOpen
    \/ SaveWrite
    \/ KilledWhileWriting
    \/ ReadArtifact
    \/ RecordCompletion
    \/ RecordFailure

SpecAnalyze == AInit /\ [][ANext]_vars

(***************************************************************************)
(* The computations of Scorer, OSVFetcher and DepsDevFetcher, each applied  *)
(* to an input drawn from a bounded set.  Outside calc every variable       *)
(* keeps the value the construction gave it.                                *)
(***************************************************************************)
calcFrame == <<wqVars, envVars, skip_llm, no_publish, an, loopVars, outVars, obs,
               last_get, cycle_log>>

CalcInit(inputs) ==
    /\ new_ratio = 3 /\ stale_ratio = 1
    /\ EmptyQueue
    /\ listing = DaemonListing
    /\ files = DaemonFilesEmpty
    /\ now = 0
    /\ skip_llm = FALSE
    /\ no_publish = FALSE
    /\ Constructed
    /\ \E input \in inputs : calc = [op |-> "input", input |-> input]

(***************************************************************************)
(* Scorer._calculate_risk_tier (analyzers/scorer.py)                        *)
(***************************************************************************)
RiskLevels == {"low", "medium", "high", "critical"}

\* SupplyChainData as far as the tier reads it; tarball is None or the list
\* of suspicious files of the tarball analysis
SupplyChains ==
    [risk_level : RiskLevels,
     installs_runtime : BOOLEAN,
     has_credential_access : BOOLEAN,
     has_network_calls : BOOLEAN,
     tarball : {None, Some(<<>>), Some(<<"setup_bun.js">>)}]

CveDetails == [severity : {"CRITICAL", "HIGH"}, fixed_version : {None, Some("1.0.1")}]

\* OSVFetcher.get_cve_history: has_unpatched is set when a record has no
\* fixed version
CveHistory(cves) ==
    [cves |-> cves, has_unpatched |-> \E cve \in cves : cve.fixed_version = None]

\* GitHubData as far as the tier reads it
RepoFacts ==
    [is_archived : BOOLEAN,
     cve_history : {None} \cup {Some(CveHistory(cves)) : cves \in SUBSET CveDetails}]

OverallScores == {30, 65, 85}
SecurityScores == {30, 50, 75}

RiskTierInputs ==
    [overall : OverallScores,
     security_score : SecurityScores,
     github_data : {None} \cup {Some(g) : g \in RepoFacts},
     supply_chain : {None} \cup {Some(s) : s \in SupplyChains}]

\* the supply-chain block: the tier it returns, None when it falls through
SupplyChainTier(supply_chain) ==
    IF supply_chain = None THEN None
    ELSE LET sc == supply_chain[1]
         IN IF sc.risk_level = "critical" THEN Some("prohibited")
            ELSE IF sc.installs_runtime THEN Some("prohibited")
            ELSE IF sc.has_credential_access /\ sc.has_network_calls THEN Some("prohibited")
            ELSE IF sc.tarball # None /\ sc.tarball[1] # <<>> THEN Some("prohibited")
            ELSE IF sc.risk_level = "high" THEN Some("restricted")
            ELSE None

\* the repository block: the tier it returns, None when it falls through
RepositoryTier(security_score, github_data) ==
    IF github_data = None THEN None
    ELSE LET gd == github_data[1]
         IN IF gd.is_archived THEN Some("prohibited")
            ELSE IF /\ gd.cve_history # None
                    /\ gd.cve_history[1].has_unpatched
                    /\ \E cve \in gd.cve_history[1].cves :
                          cve.severity = "CRITICAL" /\ cve.fixed_version = None
                 THEN Some("prohibited")
            ELSE IF security_score < 40 THEN Some("restricted")
            ELSE None

\* the score-based block
ScoreTier(overall, security_score, supply_chain) ==
    IF overall >= 80 /\ security_score >= 70
    THEN IF supply_chain # None
            /\ supply_chain[1].risk_level \in {"medium", "high", "critical"}
         THEN "conditional"
         ELSE "approved"
    ELSE IF overall >= 60 THEN "conditional"
    ELSE "restricted"

calculate_risk_tier(overall, security_score, github_data, supply_chain) ==
    IF SupplyChainTier(supply_chain) # None THEN SupplyChainTier(supply_chain)[1]
    ELSE IF RepositoryTier(security_score, github_data) # None
         THEN RepositoryTier(security_score, github_data)[1]
    ELSE ScoreTier(overall, security_score, supply_chain)

CalculateRiskTier ==
    /\ calc.op = "input"
    /\ calc' = [op |-> "risk_tier", input |-> calc.input,
                output |-> calculate_risk_tier(calc.input.overall,
                                               calc.input.security_score,
                                               calc.input.github_data,
                                               calc.input.supply_chain)]
    /\ UNCHANGED calcFrame

SpecRiskTier == CalcInit(RiskTierInputs) /\ [][CalculateRiskTier]_vars

(***************************************************************************)
(* Scorer.calculate_scores (analyzers/scorer.py): the weighted overall, its *)
(* grade and the overall it records.  Component scores are floats clamped   *)
(* to [0, 100]; the model counts them in tenths of a point, the weighted    *)
(* overall in thousandths and the recorded overall in tenths.               *)
(***************************************************************************)
WEIGHTS ==
    [security |-> 30, maintenance |-> 25, community |-> 15, bus_factor |-> 10,
     documentation |-> 10, stability |-> 10]

Components == DOMAIN WEIGHTS

\* component scores in tenths of a point: the ends of the clamp, the
\* no-data default and values on and just under a grade boundary
ComponentScores == {0, 500, 896, 900, 1000}

ScoreInputs == [Components -> ComponentScores]

RECURSIVE WeightedSum(_, _)
WeightedSum(scores, cs) ==
    IF cs = {} THEN 0
    ELSE LET c == CHOOSE c \in cs : TRUE
         IN scores[c] * WEIGHTS[c] + WeightedSum(scores, cs \ {c})

\* sum of score * weight, divided by 100: in thousandths of a point
WeightedOverall(scores) == WeightedSum(scores, Components)

\* _score_to_grade, applied to a score in thousandths
score_to_grade(score) ==
    IF score >= 90 * 1000 THEN "A"
    ELSE IF score >= 80 * 1000 THEN "B"
    ELSE IF score >= 70 * 1000 THEN "C"
    ELSE IF score >= 60 * 1000 THEN "D"
    ELSE "F"

\* round(overall, 1), from thousandths to tenths: the nearest tenth; a value
\* written with a 5 in the hundredths place lies on one side or the other
\* of the tie once it is a binary float, so either neighbour can come out
RoundToTenth(score) ==
    IF score % 100 = 50 THEN {score \div 100, score \div 100 + 1}
    ELSE {(score + 50) \div 100}

CalculateScores ==
    /\ calc.op = "input"
    /\ \E recorded \in RoundToTenth(WeightedOverall(calc.input)) :
          calc' = [op |-> "scores", input |-> calc.input,
                   output |-> [overall |-> recorded,
                               grade |-> score_to_grade(WeightedOverall(calc.input))]]
    /\ UNCHANGED calcFrame

SpecScores == CalcInit(ScoreInputs) /\ [][CalculateScores]_vars

(***************************************************************************)
(* OSVFetcher._parse_severity (analyzers/osv.py).  CVSS scores are counted  *)
(* in tenths.                                                               *)
(***************************************************************************)
CvssScores == {39, 40, 69, 70, 89, 90}

\* str.upper() on the severity words OSV records carry
Upper ==
    [s \in {"low", "moderate", "critical", "HIGH"} |->
        CASE s = "low" -> "LOW"
          [] s = "moderate" -> "MODERATE"
          [] s = "critical" -> "CRITICAL"
          [] s = "HIGH" -> "HIGH"]

\* An OSV record as far as the parser reads it:
\*   cvss_v3     - the numeric score of the CVSS_V3 entry of "severity";
\*                 None without such an entry or with a vector string
\*   db_cvss     - database_specific["cvss"]: None when the key is absent,
\*                 else the score it yields, itself None for a dict
\*                 without "score"
\*   db_severity - database_specific["severity"], None when absent
\*   affected    - per affected entry, ecosystem_specific["severity"],
\*                 None when absent
OsvRecords ==
    [cvss_v3 : {None} \cup {Some(s) : s \in CvssScores},
     db_cvss : {None, Some(None), Some(Some(75))},
     db_severity : {None, Some("low"), Some("HIGH")},
     affected : {<<>>} \cup {<<a>> : a \in {None, Some("moderate"), Some("critical")}}
                \cup {<<None, a>> : a \in {Some("moderate"), Some("critical")}}]

\* the score left after the severity array and database_specific are read
ParsedCvss(vuln) == IF vuln.db_cvss # None THEN vuln.db_cvss[1] ELSE vuln.cvss_v3

SeverityOfCvss(cvss_score) ==
    IF cvss_score >= 90 THEN "CRITICAL"
    ELSE IF cvss_score >= 70 THEN "HIGH"
    ELSE IF cvss_score >= 40 THEN "MEDIUM"
    ELSE "LOW"

\* the severity before the affected entries are read
SeverityBeforeAffected(vuln) ==
    LET severity == IF vuln.db_severity # None THEN Upper[vuln.db_severity[1]]
                    ELSE "UNKNOWN"
    IN IF severity = "UNKNOWN" /\ ParsedCvss(vuln) # None
       THEN SeverityOfCvss(ParsedCvss(vuln)[1])
       ELSE severity

\* the first affected entry that carries a severity
EcosystemSeverity(vuln) ==
    LET carrying == {i \in 1..Len(vuln.affected) : vuln.affected[i] # None}
    IN IF carrying = {} THEN None
       ELSE vuln.affected[CHOOSE i \in carrying : \A j \in carrying : i <= j]

parse_severity(vuln) ==
    [severity |-> IF EcosystemSeverity(vuln) # None
                  THEN Upper[EcosystemSeverity(vuln)[1]]
                  ELSE SeverityBeforeAffected(vuln),
     cvss_score |-> ParsedCvss(vuln)]

ParseSeverity ==
    /\ calc.op = "input"
    /\ calc' = [op |-> "severity", input |-> calc.input,
                output |-> parse_severity(calc.input)]
    /\ UNCHANGED calcFrame

SpecSeverity == CalcInit(OsvRecords) /\ [][ParseSeverity]_vars

(***************************************************************************)
(* DepsDevFetcher.parse_dependency_graph (analyzers/deps_dev.py) with       *)
(* DependencyGraphSummary (models/schemas.py).  Nodes are numbered from 0,  *)
(* the root; an edge is the pair <<fromNode, toNode>>.                      *)
(***************************************************************************)
\* a dependencies response: the number of nodes and the edges among them
DependencyGraphs ==
    UNION {[nodes : {n}, edges : SUBSET ((0..(n - 1)) \X (0..(n - 1)))] : n \in 0..MaxNodes}

\* children[node], in ascending order
RECURSIVE Ascending(_)
Ascending(S) ==
    IF S = {} THEN <<>>
    ELSE LET least == CHOOSE x \in S : \A y \in S : x <= y
         IN <<least>> \o Ascending(S \ {least})

ChildrenOf(edges, node) == {e[2] : e \in {e \in edges : e[1] = node}}

\* the while loop over queue: the depths dictionary once the queue is empty
RECURSIVE Bfs(_, _, _)
Bfs(edges, depths, queue) ==
    IF queue = <<>> THEN depths
    ELSE LET current == Head(queue)
             fresh == ChildrenOf(edges, current) \ DOMAIN depths
         IN Bfs(edges,
                [n \in DOMAIN depths \cup fresh |->
                    IF n \in DOMAIN depths THEN depths[n] ELSE depths[current] + 1],
                Tail(queue) \o Ascending(fresh))

Depths(graph) == Bfs(graph.edges, [n \in {0} |-> 0], <<0>>)

\* depths.get(i, 0)
DepthOf(graph, i) == IF i \in DOMAIN Depths(graph) THEN Depths(graph)[i] ELSE 0

MaxOf(S) == CHOOSE x \in S : \A y \in S : y <= x

parse_dependency_graph(graph) ==
    IF graph.nodes = 0 THEN None
    ELSE Some([direct_count |->
                   Cardinality({i \in 1..(graph.nodes - 1) : DepthOf(graph, i) = 1}),
               transitive_count |->
                   Cardinality({i \in 1..(graph.nodes - 1) : DepthOf(graph, i) # 1}),
               max_depth |-> MaxOf({Depths(graph)[n] : n \in DOMAIN Depths(graph)})])

\* DependencyGraphSummary.total_count
total_count(summary) == summary.direct_count + summary.transitive_count

ParseDependencyGraph ==
    /\ calc.op = "input"
    /\ calc' = [op |-> "graph", input |-> calc.input,
                output |-> parse_dependency_graph(calc.input)]
    /\ UNCHANGED calcFrame

SpecDependencyGraph == CalcInit(DependencyGraphs) /\ [][ParseDependencyGraph]_vars

(***************************************************************************)
(* Properties                                                              *)
(***************************************************************************)
NewThenStale == [i \in 1..CycleLength |-> IF i <= new_ratio THEN "new" ELSE "stale"]

C10_FallThrough ==
    last_get.called =>
        /\ (last_get.result = None) <=>
               (last_get.pre_new = None /\ last_get.pre_stale = None)
        /\ (last_get.pre_new = None /\ last_get.pre_stale # None) =>
               last_get.result = last_get.pre_stale
        /\ (last_get.pre_stale = None /\ last_get.pre_new # None) =>
               last_get.result = last_get.pre_new

\* the position asks for a new package in mid-cycle, the new queue is
\* empty, and the head of the stale queue is returned
C10_Witness ==
    /\ last_get.called
    /\ last_get.pre_new = None
    /\ last_get.pre_stale # None
    /\ last_get.pre_pos > 0 /\ last_get.pre_pos < new_ratio
    /\ last_get.result = last_get.pre_stale

RateLimitSleeping == sleep.active /\ sleep.reason = "rate_limit"

\* C2: the rate limits are checked before a dequeued package is analyzed;
\* when the consulted fetcher's cached remaining is below the threshold and
\* its reset time is known, RateLimitExhausted is raised, the analysis of
\* the package is not started and the daemon sleeps until the reset.  (Spec)
C2_RateLimitCheckedFirst ==
    /\ pc = "analyzing" => obs.checked_current
    /\ (pc = "pre_analyze" /\ pipelines # <<>>) =>
          ~(/\ rate_limit[pipelines[1]].remaining < RATE_LIMIT_THRESHOLD
            /\ rate_limit[pipelines[1]].reset # None)
    /\ pc = "handle_rl" =>
          /\ rl_exc = Some([reset_time |-> rate_limit[pipelines[1]].reset[1],
                            remaining |-> rate_limit[pipelines[1]].remaining])
          /\ ~obs.started_current
    /\ RateLimitSleeping =>
          /\ pc \in {"sleep_check", "sleep_wait"}
          /\ ~obs.started_current
          /\ sleep.start + sleep.seconds >= rl_exc[1].reset_time

C2_Witness ==
    /\ RateLimitSleeping
    /\ pc = "sleep_wait"
    /\ current_package # None
    /\ rl_exc[1].remaining < RATE_LIMIT_THRESHOLD
    /\ ~obs.started_current

\* C3 as stated: a rate-limit sleep lasts until reset_at + 10 s.  (Spec)
C3_SleepsUntilResetPlusBuffer ==
    RateLimitSleeping =>
        sleep.start + sleep.seconds = rl_exc[1].reset_time + RATE_LIMIT_BUFFER

\* C3: when RateLimitExhausted is caught with reset_at in the future, the
\* daemon sleeps interruptibly for max(reset_at - now + 10, 60) seconds,
\* that is until the later of reset_at + 10 s and 60 s from now, and then
\* resumes the loop.  (Spec)
C3_SleepsAtLeastAMinute ==
    /\ RateLimitSleeping =>
          /\ rl_exc[1].reset_time > sleep.start
          /\ sleep.start + sleep.seconds =
                Max(rl_exc[1].reset_time + RATE_LIMIT_BUFFER,
                    sleep.start + RATE_LIMIT_MIN_SLEEP)
    /\ (obs.last_sleep.returned /\ obs.last_sleep.reason = "rate_limit") =>
          IF obs.last_sleep.interrupted
            THEN obs.last_sleep.flag_at >= 0
          ELSE obs.last_sleep.returned_at =
                  Max(obs.last_sleep.reset_time + RATE_LIMIT_BUFFER,
                      obs.last_sleep.start + RATE_LIMIT_MIN_SLEEP)

\* a reset 5 s ahead was slept out for the full minute, and the loop resumed
C3_Witness ==
    /\ obs.last_sleep.returned
    /\ obs.last_sleep.reason = "rate_limit"
    /\ ~obs.last_sleep.interrupted
    /\ obs.last_sleep.reset_time - obs.last_sleep.start = 5
    /\ obs.last_sleep.returned_at = obs.last_sleep.start + RATE_LIMIT_MIN_SLEEP
    /\ pc = "loop_head"

\* C4: when RateLimitExhausted is handled with reset_at <= now, the daemon
\* does not sleep and goes on with the main loop.  (Spec)
C4_NoSleepWhenResetPassed ==
    (obs.rl_handled.handled /\ obs.rl_handled.reset_time <= obs.rl_handled.at) =>
        /\ ~obs.rl_handled.slept
        /\ obs.rl_handled.next = "loop_head"
        /\ ~(RateLimitSleeping /\ sleep.start = obs.rl_handled.at)

C4_Witness ==
    /\ obs.rl_handled.handled
    /\ obs.rl_handled.reset_time = obs.rl_handled.at
    /\ ~obs.rl_handled.slept
    /\ pc = "loop_head"
    /\ now = obs.rl_handled.at
    /\ ~sleep.active

\* C5: a shutdown signal that arrives while a package is being analyzed
\* does not preempt it; the analysis runs to its end and the loop then
\* exits without dequeuing or starting another package.  (Spec)
C5_InFlightPackageCompletes ==
    obs.in_flight =>
        /\ ~obs.dequeued_after_shutdown
        /\ ~obs.started_after_shutdown
        /\ ~obs.in_flight_done => pc = "analyzing"
        /\ pc = "stopped" => (obs.in_flight_done /\ obs.exit_by = "shutdown")

\* the daemon stopped after the in-flight analysis, leaving a queued package
C5_Witness ==
    /\ obs.in_flight
    /\ obs.in_flight_done
    /\ pc = "stopped"
    /\ new_queue # <<>>
    /\ total_analyzed = 1

SleepReference == Max(obs.shutdown_at, sleep.start)

\* C7: _interruptible_sleep returns at most 10 s after the shutdown flag
\* is set, however long the requested sleep.  (Spec)
C7_SleepReturnsWithinPoll ==
    /\ (pc = "sleep_wait" /\ shutdown_requested) =>
          wake_at[1] - SleepReference <= SLEEP_POLL
    /\ (pc = "sleep_check" /\ shutdown_requested) =>
          now - SleepReference <= SLEEP_POLL
    /\ (obs.last_sleep.returned /\ obs.last_sleep.flag_at >= 0) =>
          obs.last_sleep.returned_at
             - Max(obs.last_sleep.flag_at, obs.last_sleep.start) <= SLEEP_POLL

\* a sleep of more than 10 s cut short, returning the full 10 s after the flag
C7_Witness ==
    /\ obs.last_sleep.returned
    /\ obs.last_sleep.interrupted
    /\ obs.last_sleep.seconds > SLEEP_POLL
    /\ obs.last_sleep.flag_at >= obs.last_sleep.start
    /\ obs.last_sleep.returned_at - obs.last_sleep.flag_at = SLEEP_POLL

\* the back-off C8 states for the n-th consecutive failure; 5 * 2^6 is
\* already above the cap
StatedBackoff(n) ==
    IF n - 1 >= 6 THEN ERROR_BACKOFF_MAX
    ELSE Min(ERROR_BACKOFF_BASE * (2 ^ (n - 1)), ERROR_BACKOFF_MAX)

\* C8: after the n-th consecutive failed analysis the daemon backs off for
\* min(5 * 2^(n-1), 300) seconds, and a successful analysis resets the
\* count of consecutive failures to 0.  (SpecBackoff)
C8_BackoffDoublesToCap ==
    IF obs.backoff.applied
      THEN /\ obs.backoff.n = consecutive_errors
           /\ ~obs.backoff.raised
           /\ obs.backoff.seconds = StatedBackoff(obs.backoff.n)
    ELSE consecutive_errors = 0

\* the 1025th consecutive failure: OverflowError instead of a back-off
C8_Witness ==
    /\ obs.backoff.applied
    /\ obs.backoff.raised
    /\ obs.backoff.n = FLOAT_MAX_EXP + 1
    /\ obs.exit_by = "exception"

\* C9: between two consecutive refreshes of the work queue, every package
\* is handed out by the queue and analyzed at most once.  (Spec)
C9_OncePerCycle ==
    /\ ~obs.repeat
    /\ obs.analyzed \subseteq obs.handed
    /\ \A p \in obs.handed :
          /\ \A i \in 1..Len(new_queue) : PackageKey(new_queue[i]) # p
          /\ \A i \in 1..Len(stale_queue) : PackageKey(stale_queue[i]) # p

\* a package whose analysis failed before the second refresh is analyzed
\* again after it
C9_Witness ==
    /\ obs.refreshes = 2
    /\ obs.analyzed # {}
    /\ metrics.error_count >= 1

\* C11: a daemon idling on an empty queue refreshes the queue once the
\* refresh interval has passed since the last refresh, so that no package is
\* asked for with a refresh overdue, and when that refresh yields new or
\* stale packages the daemon goes back to analyzing them: they are not used
\* up without an analysis having started.  (Spec)
C11_RefreshResumesAnalysis ==
    /\ pc = "get_next" =>
          /\ last_queue_refresh # None
          /\ now - last_queue_refresh[1] < QUEUE_REFRESH_INTERVAL
    /\ obs.idle_refresh # "lost"

\* the refresh after an idle hour found packages, and the queue is empty
\* again with none of them analyzed
C11_Witness ==
    /\ obs.idle_refresh = "lost"
    /\ obs.refreshes = 2
    /\ obs.analyzed = {}
    /\ obs.handed # {}
    /\ ~shutdown_requested

\* stage 4 of the call is over: the analysis was built, or scoring raised
ScoringOver == an.analysis \/ an.raised_at = "scoring"

Scorable == an.data_availability \in {"available", "partial_forge"}

\* C12: once scoring is over, the analysis has scores exactly when its
\* data_availability is available or partial_forge.  (SpecAnalyze)
C12_ScoresIffAvailable == ScoringOver => (an.scores <=> Scorable)

\* a package with full GitHub facts, or with deps.dev project data for
\* another forge, reached scoring and has no scores
C12_Witness ==
    /\ an.raised_at = "scoring"
    /\ an.data_availability = "partial_forge"
    /\ an.aggregator_data # None
    /\ ~an.scores

\* C13: no stage before persistence aborts the package: an exception leaves
\* analyze_package only from the save.  (SpecAnalyze)
C13_OnlyPersistenceAborts == an.pc = "raised" => an.raised_at = "save"

\* the metadata stage raised: no analysis was built and nothing was written
C13_Witness ==
    /\ an.pc = "raised"
    /\ an.raised_at = "metadata"
    /\ ~an.analysis
    /\ an.artifact = an.previous

\* C14: with the repository found, a failing sub-fetch does not make
\* fetch_repo_data fail: the call returns repository facts.  (SpecAnalyze)
C14_SubFetchFailureDegrades == an.repo_info = "ok" => an.raised_at # "github"

\* the repository was found, one sub-fetch raised, and with it the call
C14_Witness ==
    /\ an.repo_info = "ok"
    /\ an.sub_error
    /\ an.pc = "raised"
    /\ an.raised_at = "github"
    /\ an.github_data = None

\* C15: LLM calls are issued only for a package whose repository facts were
\* fetched and after the LLM endpoint reported availability; for a package
\* without a repository URL no CVE call and no LLM call is issued, and the
\* call ends with the artifact written unless the write itself fails.
\* (SpecAnalyze)
C15_LlmOnlyWithRepoFacts ==
    /\ an.llm_calls # {} => an.github_data # None /\ an.llm_available = "yes"
    /\ an.data_availability = "no_repo" =>
         /\ ~an.cve_called
         /\ an.llm_calls = {}
         /\ an.pc = "returned" => an.artifact = Artifact(now)
         /\ an.pc = "raised" => an.raised_at = "save"

\* a package without a repository URL went through a pipeline that has an
\* LLM analyzer and its artifact is on disk
C15_Witness ==
    /\ ~skip_llm
    /\ an.repo_ref = "none"
    /\ an.data_availability = "no_repo"
    /\ an.pc = "returned"
    /\ an.analysis
    /\ an.artifact = Artifact(now)
    /\ an.llm_available = "unasked"

\* C16: in the parallel mode no LLM call is issued while a content fetch of
\* Phase 1 is still under way; each of them has ended, with content, without
\* or by an exception, before Phase 2 begins.  (SpecAnalyze)
C16_PhaseOneBeforePhaseTwo ==
    (an.parallel_llm /\ (an.llm_calls # {} \/ an.pc = "llm_calls")) => an.fetch_pending = {}

\* Phase 2 is under way after a Phase 1 in which one fetch raised and
\* another brought content
C16_Witness ==
    /\ an.parallel_llm
    /\ an.pc = "llm_calls"
    /\ an.fetch_failed # {}
    /\ an.fetch_results # {}
    /\ an.llm_calls = LlmTasks(an.fetch_results)
    /\ an.llm_pending # {}

\* C17: in either mode a failing content fetch or LLM call leaves only its
\* own assessment absent: the runner does not raise, and it returns with
\* every assessment whose LLM call was issued and did not fail.
\* (SpecAnalyze)
C17_AssessmentFailureIsLocal ==
    /\ an.raised_at # "llm"
    /\ an.llm_assessments => an.assessments = an.llm_calls \ an.llm_failed

\* the sequential runner's README fetch raised and took the call with it,
\* before any other assessment was taken up
C17_Witness ==
    /\ ~an.parallel_llm
    /\ an.pc = "raised"
    /\ an.raised_at = "llm"
    /\ an.fetch_failed = {"readme"}
    /\ an.next_assessment = 1
    /\ an.assessments = {}

\* C18: the metrics snapshot is mutated and saved only with the collector's
\* lock held: no writer has changed or saved it without the lock.  (Spec)
C18_MutationsUnderLock == obs.unlocked = {}

\* the daemon ran to its end: the refresh, the start of run() and its finally
\* block each wrote the snapshot and the file without the lock, around
\* packages written by the collector's locked methods
C18_Witness ==
    /\ pc = "stopped"
    /\ obs.unlocked = {"_refresh_queue_if_needed", "run", "run finally"}
    /\ metrics.completed_packages > 0
    /\ metrics_file = metrics

\* C19: once an operation that changes the metrics snapshot has returned,
\* status updates included, the metrics file holds the snapshot.
\* (SpecAnalyze)
C19_FileHoldsSnapshot == metrics_file = metrics

\* the OSV status and the GitHub rate limit were updated during an analysis
\* that has returned, and the file still holds the values from before
C19_Witness ==
    /\ an.pc = "raised"
    /\ an.raised_at = "scoring"
    /\ an.cve_called
    /\ metrics.osv_status = "OK"
    /\ metrics_file.osv_status = "unknown"
    /\ metrics.github_rate_limit_remaining # metrics_file.github_rate_limit_remaining

\* C20: the artifact is overwritten atomically: a reader never meets a
\* partially written artifact, and a process killed during the write leaves
\* the complete previous artifact or the complete new one.  (SpecAnalyze)
C20_AtomicOverwrite ==
    /\ an.reader_saw # "partial"
    /\ an.pc = "killed" => Content(an.artifact, an.previous) \in {"previous", "new"}

\* the package had an artifact; the process was killed inside write_text and
\* the work queue's reader then finds a file without a usable analyzed_at
C20_Witness ==
    /\ an.pc = "killed"
    /\ an.previous = Artifact(now - STALE_THRESHOLD_SECONDS)
    /\ an.artifact = Garbled
    /\ an.reader_saw = "partial"
    /\ get_analyzed_at(an.artifact) = None

\* the packages the work queue still holds
Queued == {PackageKey(new_queue[i]) : i \in 1..Len(new_queue)}
          \cup {PackageKey(stale_queue[i]) : i \in 1..Len(stale_queue)}

\* C25: a package taken from the queue whose analysis was not started is
\* not consumed: unless it is the package in hand, it is back in the queue.
\* (Spec)
C25_UnstartedPackageRequeued ==
    \A k \in obs.handed \ obs.analyzed :
        \/ current_package # None /\ PackageKey(current_package[1]) = k
        \/ k \in Queued

\* the rate-limit check raised for a package, the daemon slept the limit
\* out and is back in its loop without a shutdown: the package was never
\* analyzed and the queue no longer holds it
C25_Witness ==
    /\ ~shutdown_requested
    /\ pc = "loop_head"
    /\ current_package = None
    /\ obs.last_sleep.returned
    /\ obs.last_sleep.reason = "rate_limit"
    /\ \E k \in obs.handed \ obs.analyzed : k \notin Queued

\* The check of _check_rate_limits would raise, and the reset moment it
\* would report has passed.
ResetOverdue ==
    LET e == check_rate_limits(pipelines, rate_limit, RATE_LIMIT_THRESHOLD)
    IN  IF e = None THEN FALSE ELSE ResetPassed(e[1].reset_time, now)

\* C26: rate-limit backpressure ends with the reset: once the check has
\* raised and the reset moment has passed, the packages the queue hands out
\* are not used up, one after the other turned away by the check, without an
\* analysis having started.  (Spec)
C26_BackpressureEnds == obs.backpressure # "drained"

\* no shutdown was requested, the reset moment is behind, the check still
\* raises, and every package the queue held since has been turned away
C26_Witness ==
    /\ ~shutdown_requested
    /\ obs.backpressure = "drained"
    /\ ResetOverdue
    /\ obs.handed \ obs.analyzed # {}
    /\ new_queue = <<>> /\ stale_queue = <<>>
    /\ pc = "sleep_wait"

\* C27: a shutdown requested while the daemon waits between packages makes
\* the main loop exit within 10 seconds: as long as the loop has not exited,
\* no more than that has passed since the request.  (Spec)
C27_WaitingExitsWithinPoll ==
    (/\ shutdown_requested
     /\ ~obs.in_flight
     /\ pc \notin {"finally", "stopped", "crashed"}) =>
        now - obs.shutdown_at <= SLEEP_POLL

\* the request came during an error back-off, which was slept out in full:
\* the loop is only now back at its head, more than 10 s later
C27_Witness ==
    /\ shutdown_requested
    /\ ~obs.in_flight
    /\ pc = "loop_head"
    /\ obs.backoff.applied
    /\ obs.backoff.seconds > SLEEP_POLL
    /\ now - obs.shutdown_at > SLEEP_POLL

\* C28: the rate-limit check reflects the fetcher that serves the package:
\* no analysis is under way on a pipeline whose fetcher last reported a
\* remaining quota below the threshold with a known reset time.  (Spec)
C28_CheckReflectsServingFetcher ==
    pc = "analyzing" =>
        LET github == rate_limit[current_package[1].ecosystem]
        IN  ~RateLimitLow(github.remaining, github.reset, RATE_LIMIT_THRESHOLD)

\* a package is being analyzed on a pipeline whose fetcher is below the
\* threshold, the check having looked at another pipeline's fetcher
C28_Witness ==
    /\ pc = "analyzing"
    /\ obs.checked_current
    /\ pipelines[1] # current_package[1].ecosystem
    /\ rate_limit[current_package[1].ecosystem].remaining < RATE_LIMIT_THRESHOLD
    /\ rate_limit[current_package[1].ecosystem].reset # None
    /\ rate_limit[pipelines[1]].remaining >= RATE_LIMIT_THRESHOLD

\* C29: a failed analysis is recorded once: when its handling is over the
\* metrics hold one more entry in recent_errors, an error_count higher by
\* one and a completed_packages higher by one than before the failure.
\* (Spec)
C29_FailureRecordedOnce ==
    (pc = "backoff" /\ obs.failure.failed) =>
        /\ metrics.recent_errors = obs.failure.recent_errors + 1
        /\ metrics.error_count = obs.failure.error_count + 1
        /\ metrics.completed_packages = obs.failure.completed_packages + 1

\* the failure was handled and recent_errors holds two entries for it
C29_Witness ==
    /\ pc = "backoff"
    /\ obs.failure.failed
    /\ metrics.recent_errors = obs.failure.recent_errors + 2
    /\ metrics.error_count = obs.failure.error_count + 1
    /\ metrics.completed_packages = obs.failure.completed_packages + 1
    /\ metrics_file = metrics

\* C30: a package that went through scoring is recorded as scored exactly
\* when its data_availability is available or partial_forge, the analyses
\* that carry scores, and as unavailable exactly when its analysis was
\* returned without scores.  (SpecAnalyze)
C30_ScoredIffScores ==
    (an.pc \in {"recorded", "error_recorded"} /\ ScoringOver) =>
        /\ metrics.scored_count = 1 <=> Scorable
        /\ metrics.unavailable_count = 1 <=> (an.analysis /\ ~an.scores)

\* a package with full GitHub facts was recorded as an error, not as scored
C30_Witness ==
    /\ an.pc = "error_recorded"
    /\ an.raised_at = "scoring"
    /\ an.data_availability = "available"
    /\ an.github_data # None
    /\ metrics.scored_count = 0
    /\ metrics.error_count = 1
    /\ metrics_file = metrics

\* the conditions the risk tier is specified to prohibit on
SupplyChainProhibits(supply_chain) ==
    /\ supply_chain # None
    /\ \/ supply_chain[1].risk_level = "critical"
       \/ supply_chain[1].installs_runtime
       \/ supply_chain[1].has_credential_access /\ supply_chain[1].has_network_calls
       \/ supply_chain[1].tarball \notin {None, Some(<<>>)}

RepositoryProhibits(github_data) ==
    /\ github_data # None
    /\ \/ github_data[1].is_archived
       \/ /\ github_data[1].cve_history # None
          /\ \E cve \in github_data[1].cve_history[1].cves :
                cve.severity = "CRITICAL" /\ cve.fixed_version = None

\* C21: the risk tier is prohibited exactly when the supply-chain risk level
\* is critical, a lifecycle script installs a runtime, lifecycle scripts
\* show credential access together with network calls, the tarball holds
\* suspicious files, the repository is archived, or a CRITICAL CVE has no
\* fixed version; with none of them the tier is restricted, conditional or
\* approved.
C21_ProhibitedIffCondition ==
    calc.op = "risk_tier" =>
        /\ calc.output \in {"prohibited", "restricted", "conditional", "approved"}
        /\ calc.output = "prohibited" <=>
              \/ SupplyChainProhibits(calc.input.supply_chain)
              \/ RepositoryProhibits(calc.input.github_data)

\* an archived repository whose supply-chain risk level is high has had its
\* tier computed
C21_Witness ==
    /\ calc.op = "risk_tier"
    /\ calc.input.supply_chain # None
    /\ calc.input.supply_chain[1].risk_level = "high"
    /\ ~SupplyChainProhibits(calc.input.supply_chain)
    /\ calc.input.github_data # None
    /\ calc.input.github_data[1].is_archived
    /\ calc.output = "restricted"

\* the grade band of a recorded overall, in tenths of a point
GradeBand(overall) ==
    IF overall >= 900 THEN "A"
    ELSE IF overall >= 800 THEN "B"
    ELSE IF overall >= 700 THEN "C"
    ELSE IF overall >= 600 THEN "D"
    ELSE "F"

\* C22: the overall recorded in a Scores value lies in [0, 100] and the
\* recorded grade is the band of that recorded overall: A from 90, B from
\* 80, C from 70, D from 60, F below.
C22_GradeIsBandOfRecordedOverall ==
    calc.op = "scores" =>
        /\ calc.output.overall \in 0..1000
        /\ calc.output.grade = GradeBand(calc.output.overall)

\* the recorded overall always lies in [0, 100]
RecordedOverallInRange ==
    calc.op = "scores" => calc.output.overall \in 0..1000

\* a weighted overall of 89.96 has been recorded as 90.0 with grade B
C22_Witness ==
    /\ calc.op = "scores"
    /\ WeightedOverall(calc.input) = 89960
    /\ calc.output.overall = 900
    /\ calc.output.grade = "B"

\* the severity the parse order explicit -> CVSS -> ecosystem-specific
\* yields for a record whose parsed CVSS score is cvss_score
SeverityInOrder(vuln, cvss_score) ==
    IF vuln.db_severity # None THEN Upper[vuln.db_severity[1]]
    ELSE IF cvss_score # None THEN SeverityOfCvss(cvss_score[1])
    ELSE IF EcosystemSeverity(vuln) # None THEN Upper[EcosystemSeverity(vuln)[1]]
    ELSE "UNKNOWN"

\* C23: a CVE's severity is the record's explicit severity when there is
\* one; without it, the band of the CVSS score (from 9 CRITICAL, from 7 HIGH,
\* from 4 MEDIUM, below LOW); the ecosystem-specific severity only when the
\* record has neither; and UNKNOWN otherwise.
C23_SeverityParseOrder ==
    calc.op = "severity" =>
        calc.output.severity = SeverityInOrder(calc.input, calc.output.cvss_score)

\* on records without an ecosystem-specific severity the order is kept
SeverityOrderWithoutEcosystem ==
    (calc.op = "severity" /\ EcosystemSeverity(calc.input) = None) =>
        calc.output.severity = SeverityInOrder(calc.input, calc.output.cvss_score)

\* a record with the explicit severity HIGH and an ecosystem-specific
\* severity "moderate" has been parsed
C23_Witness ==
    /\ calc.op = "severity"
    /\ calc.input.db_severity = Some("HIGH")
    /\ EcosystemSeverity(calc.input) = Some("moderate")
    /\ calc.output.severity = "MODERATE"

\* every node of the response is reached from the root
AllReachable(graph) == DOMAIN Depths(graph) = 0..(graph.nodes - 1)

\* what the summary is specified to satisfy
SummaryConsistent(graph, summary) ==
    /\ summary.max_depth = 0 <=> summary.direct_count + summary.transitive_count = 0
    /\ summary.direct_count + summary.transitive_count = graph.nodes - 1
    /\ summary.direct_count =
          Cardinality({i \in 1..(graph.nodes - 1) :
                          i \in DOMAIN Depths(graph) /\ Depths(graph)[i] = 1})
    /\ total_count(summary) = summary.direct_count + summary.transitive_count

\* C24: in every dependency graph summary, max_depth is 0 exactly when the
\* package has no dependencies, every node but the root is counted once, as
\* direct when its depth is 1 and as transitive otherwise, and the total is
\* direct plus transitive.
C24_SummaryOfBfs ==
    (calc.op = "graph" /\ calc.output # None) =>
        SummaryConsistent(calc.input, calc.output[1])

\* the summary is consistent whenever every node is reached from the root
SummaryOfConnectedGraph ==
    (calc.op = "graph" /\ calc.output # None /\ AllReachable(calc.input)) =>
        SummaryConsistent(calc.input, calc.output[1])

\* a response with a root and a node no edge leads to has been summarised:
\* one transitive dependency at depth 0
C24_Witness ==
    /\ calc.op = "graph"
    /\ calc.input.nodes = 2
    /\ calc.input.edges = {}
    /\ calc.output # None
    /\ calc.output[1].max_depth = 0
    /\ calc.output[1].transitive_count = 1

====
